---------------------------- MODULE Spec2Model ----------------------------
(***************************************************************************)
(* A model of the dual-puzzle generator (utils/imageMatcher.ts): tile      *)
(* extraction, tile similarity, the greedy assignment, blending, and the   *)
(* assembly of a puzzle definition.                                        *)
(*                                                                         *)
(* Conventions.                                                            *)
(*  - A JavaScript array is a function on 0..n-1 (Arr below), so indices   *)
(*    are the source's indices.  The list allPairs, which the code only    *)
(*    iterates, is a sequence.                                             *)
(*  - A colour string "#rrggbb" is the sequence of the values of its hex   *)
(*    digits, <<15,15,0,0,0,0>> for "#ff0000".                             *)
(*  - An IEEE double that is not an integer is a fixed-point number: pixel *)
(*    distances in 1/1000 (floor), similarities in 1/1000000 (the quotient *)
(*    is cut, not rounded).  NaN is a reserved integer that no             *)
(*    computation yields; it is tested only through IsNaN.                 *)
(*  - A call that throws yields a record whose threw field is TRUE.        *)
(***************************************************************************)
EXTENDS Integers, Sequences, FiniteSets, TLC

VARIABLES
    pc,                 \* position of the caller: "input", then what was called
    similarityMatrix,   \* hungarianAlgorithm's argument
    assignment,         \* hungarianAlgorithm's result
    imageData,          \* extractTiles' argument
    gridSize,           \* the gridSize argument of extractTiles, matchImages
    tiles,              \* extractTiles' result
    tileA, tileB,       \* tileSimilarity's arguments
    similarity,         \* tileSimilarity's outcome
    imageA, imageB,     \* matchImages' arguments
    matchResult,        \* matchImages' outcome
    puzzle,             \* createPuzzleFromMatch's result
    args,               \* the arguments of a call, by their names
    returned,           \* what the call returned
    shuffleResult,      \* shuffleUntilUnsolved's local result
    attempts,           \* shuffleUntilUnsolved's local attempts
    puzzleIndex,        \* App's puzzleIndex state
    currentArrangement, \* usePuzzleState's currentArrangement state
    selectedTileIndex,  \* usePuzzleState's selectedTileIndex state
    moveCount,          \* usePuzzleState's moveCount state
    flippedTiles,       \* usePuzzleState's flippedTiles state
    initialMemo,        \* usePuzzleState's memoized initialArrangement
    showWinModal,       \* PuzzleGame's showWinModal state
    winTimer,           \* the timeout of the win-modal effect
    lastOp,             \* the operation of the game that ran last
    moves,              \* history: the moves since load, shuffle or reset
    dismissed,          \* history: the modal was closed on this solution
    xoPuzzle, arrowPuzzle, facePuzzle   \* the exports of puzzles/generated.ts

assignVars == <<similarityMatrix, assignment>>
extractVars == <<imageData, tiles>>
tileVars == <<tileA, tileB, similarity>>
matchVars == <<imageA, imageB, matchResult, puzzle>>

callVars == <<args, returned>>
shuffleVars == <<shuffleResult, attempts>>
hookVars == <<selectedTileIndex, moveCount, flippedTiles, initialMemo>>
gameVars == <<hookVars, showWinModal, winTimer, lastOp, moves, dismissed>>
appVars == <<puzzleIndex, currentArrangement, gameVars>>
moduleVars == <<xoPuzzle, arrowPuzzle, facePuzzle>>
matcherVars == <<assignVars, gridSize, extractVars, tileVars, matchVars>>
otherVars == <<callVars, shuffleVars, appVars, moduleVars>>

vars == <<pc, matcherVars, otherVars>>

(***************************************************************************)
(* Bounds of the model.                                                    *)
(***************************************************************************)
MaxN == 2
MaxScore == 2
MaxTileDim == 2
MaxImageDim == 3
MaxGrid == 3
MaxMatchDim == 2
MaxInk == 1
MaxRandom == 1
MaxTiles == 2
MaxPalette == 2
MaxOver == 3
MaxBlendDim == 1

(***************************************************************************)
(* JavaScript arrays and numbers.                                          *)
(***************************************************************************)
NaN == -999999999

\* the array of F(0), ..., F(n-1); "@@ <<>>" has TLC compute the elements
\* once, here, instead of at every later read
Arr(n, F(_)) == [k \in 0..(n - 1) |-> F(k)] @@ <<>>

ArrLen(a) == Cardinality(DOMAIN a)

EmptyArr == Arr(0, LAMBDA k : k)

IsNaN(x) == x = NaN

\* a loop "for (const x of s)" over s[lo..hi] whose body is acc = Op(acc, x).
\* The range is halved, and the first half's result is made a set's element,
\* so that TLC computes it before the second half and nests only log-deep.
RECURSIVE FoldLeft(_, _, _, _, _)
FoldLeft(Op(_, _), acc, s, lo, hi) ==
    IF lo > hi THEN acc
    ELSE IF lo = hi THEN Op(acc, s[lo])
    ELSE LET mid == (lo + hi) \div 2
         IN  CHOOSE r \in {FoldLeft(Op, left, s, mid + 1, hi) :
                              left \in {FoldLeft(Op, acc, s, lo, mid)}} : TRUE

\* x - y on doubles: NaN if either operand is NaN
NumSub(x, y) == IF IsNaN(x) \/ IsNaN(y) THEN NaN ELSE x - y

(***************************************************************************)
(* hungarianAlgorithm (the greedy approximation).                          *)
(***************************************************************************)
\* the nested loops that fill allPairs, row by row
AllPairs(m) ==
    LET n == ArrLen(m)
    IN  [p \in 1..(n * n) |->
            LET i == (p - 1) \div n
                j == (p - 1) % n
            IN  [i |-> i, j |-> j, sim |-> m[i][j]]] @@ <<>>

\* the comparator with its operands exchanged: an ascending sort
ComparePairsAscending(a, b) ==
    LET d == NumSub(a.sim, b.sim)
    IN  IF IsNaN(d) THEN 0 ELSE d

\* the comparator (a, b) => b.sim - a.sim; a NaN result counts as 0
ComparePairs(a, b) ==
    LET d == NumSub(b.sim, a.sim)
    IN  IF IsNaN(d) THEN 0 ELSE d

\* an unstable insertion: x goes before the elements that compare equal
InsertSortedBeforeEqual(s, x) ==
    LET later == {p \in 1..Len(s) : ComparePairs(s[p], x) >= 0}
        at == IF later = {} THEN Len(s) + 1
              ELSE CHOOSE p \in later : \A q \in later : p <= q
    IN  SubSeq(s, 1, at - 1) \o <<x>> \o SubSeq(s, at, Len(s))

\* Array.prototype.sort is stable: x, met after the elements of the sorted
\* prefix s, goes before the first element the comparator puts after it
InsertSorted(s, x) ==
    LET later == {p \in 1..Len(s) : ComparePairs(s[p], x) > 0}
        at == IF later = {} THEN Len(s) + 1
              ELSE CHOOSE p \in later : \A q \in later : p <= q
    IN  SubSeq(s, 1, at - 1) \o <<x>> \o SubSeq(s, at, Len(s))

\* the pairs left in the order they were pushed
SortPairsUnsorted(pairs) == pairs

\* allPairs.sort((a, b) => b.sim - a.sim)
SortPairs(pairs) == FoldLeft(InsertSorted, <<>>, pairs, 1, Len(pairs))

\* one iteration of "for (const pair of allPairs)" that ignores usedB
GreedyStepNoUsedB(st, pair, n) ==
    IF Cardinality(st.usedB) = n THEN st
    ELSE IF st.assignment[pair.i] = -1
    THEN [assignment |-> [st.assignment EXCEPT ![pair.i] = pair.j],
          usedB |-> st.usedB \cup {pair.j}]
    ELSE st

\* one iteration of "for (const pair of allPairs)"; after the break
\* (usedB.size === n) no iteration runs
GreedyStep(st, pair, n) ==
    IF Cardinality(st.usedB) = n THEN st
    ELSE IF st.assignment[pair.i] = -1 /\ pair.j \notin st.usedB
    THEN [assignment |-> [st.assignment EXCEPT ![pair.i] = pair.j],
          usedB |-> st.usedB \cup {pair.j}]
    ELSE st

\* every row takes its own best column, whether or not it is taken
hungarianAlgorithmRowMax(m) ==
    LET n == ArrLen(m)
    IN  Arr(n, LAMBDA i :
            CHOOSE j \in 0..(n - 1) :
                /\ \A k \in 0..(n - 1) : m[i][k] <= m[i][j]
                /\ \A k \in 0..(j - 1) : m[i][k] < m[i][j])

\* const assignment = new Array(n).fill(-1); const usedB = new Set();
\* then the loop over the sorted pairs
hungarianAlgorithm(m) ==
    LET n == ArrLen(m)
        allPairs == SortPairs(AllPairs(m))
        start == [assignment |-> Arr(n, LAMBDA i : -1), usedB |-> {}]
        Step(st, pair) == GreedyStep(st, pair, n)
    IN  FoldLeft(Step, start, allPairs, 1, Len(allPairs)).assignment

(***************************************************************************)
(* Colours.                                                                *)
(***************************************************************************)
Black == <<0, 0, 0, 0, 0, 0>>
White == <<15, 15, 15, 15, 15, 15>>

Colors == {Black, White}

\* the character '-' among the characters of a string
MinusSign == -1

\* the value of a string of hex digits that is not empty
RECURSIVE DigitsValue(_)
DigitsValue(s) ==
    IF Len(s) = 1 THEN s[1]
    ELSE 16 * DigitsValue(SubSeq(s, 1, Len(s) - 1)) + s[Len(s)]

\* the number of leading characters of s that are hex digits (a letter
\* beyond 'f' has a value above 15)
RECURSIVE DigitsPrefix(_, _)
DigitsPrefix(s, k) ==
    IF k < Len(s) /\ s[k + 1] \in 0..15 THEN DigitsPrefix(s, k + 1) ELSE k

\* the value of the first k characters of s, NaN when there is none
PrefixValue(s, k) == IF k = 0 THEN NaN ELSE DigitsValue(SubSeq(s, 1, k))

\* -v, NaN for NaN
Negated(v) == IF IsNaN(v) THEN NaN ELSE 0 - v

\* parseInt(s, 16): a sign, then the hex digits up to the first character
\* that is none; NaN when there is no digit.  The first case, two hex
\* digits, is the third one computed directly.
ParseInt16(s) ==
    IF Len(s) = 2 /\ s[1] \in 0..15 /\ s[2] \in 0..15 THEN 16 * s[1] + s[2]
    ELSE IF Len(s) > 0 /\ s[1] = MinusSign
    THEN Negated(PrefixValue(Tail(s), DigitsPrefix(Tail(s), 0)))
    ELSE PrefixValue(s, DigitsPrefix(s, 0))

\* String.prototype.substring(from, to) on the digits after the '#'
Substring(h, from, to) ==
    LET lo == IF from > Len(h) THEN Len(h) ELSE from
        hi == IF to > Len(h) THEN Len(h) ELSE to
    IN  SubSeq(h, lo + 1, hi)

hexToRgb(hex) ==
    <<ParseInt16(Substring(hex, 0, 2)),
      ParseInt16(Substring(hex, 2, 4)),
      ParseInt16(Substring(hex, 4, 6))>>

\* Number.prototype.toString(16) of an integer v: a negative one has a
\* leading '-'
RECURSIVE ToString16(_)
ToString16(v) ==
    IF v < 0 THEN <<MinusSign>> \o ToString16(-v)
    ELSE IF v < 16 THEN <<v>> ELSE ToString16(v \div 16) \o <<v % 16>>

\* padStart(2, '0')
PadStart2(s) == IF Len(s) < 2 THEN <<0>> \o s ELSE s

(***************************************************************************)
(* extractTiles.                                                           *)
(***************************************************************************)
\* the tiles cut column by column: tileRow and tileCol exchanged
extractTilesColumnMajor(image, g) ==
    LET imageHeight == ArrLen(image)
        imageWidth == ArrLen(image[0])
        tileHeight == imageHeight \div g
        tileWidth == imageWidth \div g
    IN  Arr(g * g, LAMBDA k :
            LET startRow == (k % g) * tileHeight
                startCol == (k \div g) * tileWidth
            IN  Arr(tileHeight, LAMBDA r :
                    Arr(tileWidth, LAMBDA c :
                        image[startRow + r][startCol + c])))

\* the tile grid cut at (tileRow, tileCol) = (k div gridSize, k mod gridSize)
extractTiles(image, g) ==
    LET imageHeight == ArrLen(image)
        imageWidth == ArrLen(image[0])
        tileHeight == imageHeight \div g
        tileWidth == imageWidth \div g
    IN  Arr(g * g, LAMBDA k :
            LET startRow == (k \div g) * tileHeight
                startCol == (k % g) * tileWidth
            IN  Arr(tileHeight, LAMBDA r :
                    Arr(tileWidth, LAMBDA c :
                        image[startRow + r][startCol + c])))

(***************************************************************************)
(* tileSimilarity and buildSimilarityMatrix.                               *)
(***************************************************************************)
\* 1.0 in the unit of similarities, and the constant 441.67 in the unit of
\* pixel distances
One == 1000000
maxDiff == 441670

\* one step of the longhand square root: the next decimal digit d of the
\* root, given the root r so far, the remainder, and the next two digits
SqrtStep(st, pair) ==
    LET c == 100 * st[2] + pair
        d == Cardinality({x \in 1..9 : (20 * st[1] + x) * x <= c})
    IN  <<10 * st[1] + d, c - (20 * st[1] + d) * d>>

\* Math.sqrt(n) for an integer 0 <= n < 1000000, in 1/1000, cut
MathSqrt(n) ==
    LET s1 == SqrtStep(<<0, 0>>, n \div 10000)
        s2 == SqrtStep(s1, (n \div 100) % 100)
        s3 == SqrtStep(s2, n % 100)
        s4 == SqrtStep(s3, 0)
        s5 == SqrtStep(s4, 0)
        s6 == SqrtStep(s5, 0)
    IN  s6[1]

\* the digits of (rem / den) after the point, rem < den, k of them
RECURSIVE FractionDigits(_, _, _, _)
FractionDigits(rem, den, k, acc) ==
    IF k = 0 THEN acc
    ELSE FractionDigits((10 * rem) % den, den, k - 1,
                        10 * acc + (10 * rem) \div den)

\* num / den (both >= 0, den > 0) in 1/1000000, cut
Quotient(num, den) ==
    One * (num \div den) + FractionDigits(num % den, den, 6, 0)

\* the distance sqrt((r1-r2)^2 + (g1-g2)^2 + (b1-b2)^2) of two pixels
PixelDiff(p, q) ==
    LET a == hexToRgb(p)
        b == hexToRgb(q)
    IN  IF \E k \in 1..3 : IsNaN(a[k]) \/ IsNaN(b[k]) THEN NaN
        ELSE MathSqrt((a[1] - b[1]) * (a[1] - b[1])
                      + (a[2] - b[2]) * (a[2] - b[2])
                      + (a[3] - b[3]) * (a[3] - b[3]))

RECURSIVE SumTo(_, _)
SumTo(f, k) == IF k < 0 THEN 0 ELSE f[k] + SumTo(f, k - 1)

\* the call throws a TypeError: both tiles have no row, so that the test of
\* the lengths goes on to read tileA[0].length
tileSimilarityThrows(tA, tB) == ArrLen(tA) = 0 /\ ArrLen(tB) = 0

\* the average distance returned in place of the similarity
tileSimilarityDistance(tA, tB) ==
    IF ArrLen(tA) # ArrLen(tB) \/ ArrLen(tA[0]) # ArrLen(tB[0]) THEN 0
    ELSE LET h == ArrLen(tA)
             w == ArrLen(tA[0])
             pixelCount == h * w
             diffs == Arr(pixelCount, LAMBDA p :
                          PixelDiff(tA[p \div w][p % w], tB[p \div w][p % w]))
             totalDiff == SumTo(diffs, pixelCount - 1)
         IN  IF pixelCount = 0 \/ \E p \in DOMAIN diffs : IsNaN(diffs[p])
             THEN NaN
             ELSE Quotient(totalDiff, pixelCount * maxDiff)

\* tileB read bottom row first
tileSimilarityFlipped(tA, tB) ==
    IF ArrLen(tA) # ArrLen(tB) \/ ArrLen(tA[0]) # ArrLen(tB[0]) THEN 0
    ELSE LET h == ArrLen(tA)
             w == ArrLen(tA[0])
             pixelCount == h * w
             diffs == Arr(pixelCount, LAMBDA p :
                          PixelDiff(tA[p \div w][p % w],
                                    tB[h - 1 - (p \div w)][p % w]))
             totalDiff == SumTo(diffs, pixelCount - 1)
         IN  IF pixelCount = 0 \/ \E p \in DOMAIN diffs : IsNaN(diffs[p])
             THEN NaN
             ELSE One - Quotient(totalDiff, pixelCount * maxDiff)

\* the value returned when the call does not throw
tileSimilarity(tA, tB) ==
    IF ArrLen(tA) # ArrLen(tB) \/ ArrLen(tA[0]) # ArrLen(tB[0]) THEN 0
    ELSE LET h == ArrLen(tA)
             w == ArrLen(tA[0])
             pixelCount == h * w
             diffs == Arr(pixelCount, LAMBDA p :
                          PixelDiff(tA[p \div w][p % w], tB[p \div w][p % w]))
             totalDiff == SumTo(diffs, pixelCount - 1)
         IN  \* avgDiff = 0 / 0 = NaN when the tiles have no pixel
             IF pixelCount = 0 \/ \E p \in DOMAIN diffs : IsNaN(diffs[p])
             THEN NaN
             ELSE One - Quotient(totalDiff, pixelCount * maxDiff)

buildSimilarityMatrix(tilesA, tilesB) ==
    LET n == ArrLen(tilesA)
    IN  Arr(n, LAMBDA i : Arr(n, LAMBDA j : tileSimilarity(tilesA[i], tilesB[j])))

(***************************************************************************)
(* blendTiles.                                                             *)
(***************************************************************************)
\* Math.round(x) for x given in 1/100: the integer nearest to x, halves up
MathRound100(x) == (x + 50) \div 100

\* the call throws a TypeError: tileA has a pixel (r, c) that tileB lacks,
\* so that tileB[r] or the string handed to hexToRgb is undefined
blendTilesThrows(tA, tB) ==
    /\ ArrLen(tA) > 0
    /\ ArrLen(tA[0]) > 0
    /\ \/ ArrLen(tA) > ArrLen(tB)
       \/ ArrLen(tA[0]) > ArrLen(tB[0])

\* one channel: Math.round(c1 * weightA + c2 * (1 - weightA)), then
\* toString(16).padStart(2, '0'); weightA in 1/100.  A channel that is NaN
\* makes the sum NaN, whose text is "NaN"
BlendChannel(c1, c2, weightA) ==
    IF IsNaN(c1) \/ IsNaN(c2) THEN <<23, 10, 23>>
    ELSE PadStart2(ToString16(MathRound100(c1 * weightA + c2 * (100 - weightA))))

\* the tile returned when the call does not throw; weightA in 1/100
blendTiles(tA, tB, weightA) ==
    Arr(ArrLen(tA), LAMBDA r :
        Arr(ArrLen(tA[0]), LAMBDA c :
            LET p == hexToRgb(tA[r][c])
                q == hexToRgb(tB[r][c])
            IN  BlendChannel(p[1], q[1], weightA)
                \o BlendChannel(p[2], q[2], weightA)
                \o BlendChannel(p[3], q[3], weightA)))

(***************************************************************************)
(* matchImages.                                                            *)
(***************************************************************************)
\* an element of "new Array(n)" that was never written
Hole == -1

\* the preconditions section 7 of the specification leaves to the caller:
\* gridSize >= 1 and no image dimension smaller than gridSize
ValidGrid(image, g) ==
    g >= 1 /\ g <= ArrLen(image) /\ g <= ArrLen(image[0])

\* similarity >= 0.95 in place of similarity > 0.95
AboveThresholdInclusive(sim) == ~IsNaN(sim) /\ 100 * sim >= 95 * One

\* similarity > 0.95; a comparison with NaN is false
AboveThreshold(sim) == ~IsNaN(sim) /\ 100 * sim > 95 * One

\* solutionB taken to be the matching itself, not its inverse
SolutionBFromForward(matching, i, solutionB) == matching

\* the loop "solutionB[matching[i]] = i" from element i on
RECURSIVE SolutionBFrom(_, _, _)
SolutionBFrom(matching, i, solutionB) ==
    IF i >= ArrLen(matching) THEN solutionB
    ELSE SolutionBFrom(matching, i + 1,
             IF matching[i] \in DOMAIN solutionB
             THEN [solutionB EXCEPT ![matching[i]] = i]
             ELSE solutionB)

\* steps 1 to 3 of matchImages: the tiles, the matrix and the matching; the
\* step throws when tileSimilarity does
MatchingOf(imgA, imgB, g) ==
    LET tilesA == extractTiles(imgA, g)
        tilesB == extractTiles(imgB, g)
        throws == \E i, j \in DOMAIN tilesA :
                      tileSimilarityThrows(tilesA[i], tilesB[j])
        sims == IF throws THEN EmptyArr
                ELSE buildSimilarityMatrix(tilesA, tilesB)
    IN  [threw |-> throws, tilesA |-> tilesA, tilesB |-> tilesB,
         simMatrix |-> sims,
         matching |-> IF throws THEN EmptyArr ELSE hungarianAlgorithm(sims)]

\* the content of tile i: tilesA[i] itself or its blend with the matched tile
BlendedContent(m, i) ==
    IF AboveThreshold(m.simMatrix[i][m.matching[i]]) THEN m.tilesA[i]
    ELSE blendTiles(m.tilesA[i], m.tilesB[m.matching[i]], 50)

\* steps 4 and 5 of matchImages throw: a pair to blend cannot be blended
AssemblyThrows(m) ==
    \E i \in DOMAIN m.tilesA :
        /\ ~AboveThreshold(m.simMatrix[i][m.matching[i]])
        /\ blendTilesThrows(m.tilesA[i], m.tilesB[m.matching[i]])

\* the outcome of a call that threw
Thrown ==
    [threw |-> TRUE, tiles |-> EmptyArr, solutionA |-> EmptyArr,
     solutionB |-> EmptyArr, totalSimilarity |-> 0, matchDetails |-> EmptyArr]

\* steps 4 and 5 of matchImages on the matching m: the MatchResult returned,
\* or Thrown
MatchResultOf(m) ==
    LET n == ArrLen(m.tilesA)
        sims == Arr(n, LAMBDA i : m.simMatrix[i][m.matching[i]])
        contents == Arr(n, LAMBDA i : BlendedContent(m, i))
    IN  IF m.threw \/ AssemblyThrows(m) THEN Thrown
        ELSE [threw |-> FALSE,
              tiles |-> contents,
              solutionA |-> Arr(n, LAMBDA i : i),
              solutionB |-> SolutionBFrom(m.matching, 0, Arr(n, LAMBDA i : Hole)),
              totalSimilarity |->
                  IF n = 0 \/ \E i \in DOMAIN sims : IsNaN(sims[i]) THEN NaN
                  ELSE SumTo(sims, n - 1) \div n,
              matchDetails |-> Arr(n, LAMBDA i :
                  [tileIndexA |-> i,
                   tileIndexB |-> m.matching[i],
                   similarity |-> sims[i],
                   blendedContent |-> contents[i]])]

\* matchImages: the MatchResult returned, or Thrown
matchImages(imgA, imgB, g) == MatchResultOf(MatchingOf(imgA, imgB, g))

(***************************************************************************)
(* createPuzzleFromMatch.                                                  *)
(***************************************************************************)
\* the template string `t${i}`
TileId(i) == <<"t", i>>

\* the tiles numbered from 1, the solutions from 0
createPuzzleFromMatchOneBased(result, nameA, nameB, puzzleId) ==
    [id |-> puzzleId,
     name |-> <<nameA, "<->", nameB>>,
     gridSize |-> MathSqrt(ArrLen(result.tiles)),
     tiles |-> Arr(ArrLen(result.tiles), LAMBDA i :
         [id |-> TileId(i + 1),
          content |-> [type |-> "pixels", grid |-> result.tiles[i]]]),
     solutionA |-> Arr(ArrLen(result.solutionA),
                       LAMBDA k : TileId(result.solutionA[k])),
     solutionB |-> Arr(ArrLen(result.solutionB),
                       LAMBDA k : TileId(result.solutionB[k])),
     imageA |-> nameA,
     imageB |-> nameB]

createPuzzleFromMatch(result, nameA, nameB, puzzleId) ==
    [id |-> puzzleId,
     name |-> <<nameA, "<->", nameB>>,
     \* Math.sqrt(tiles.length), in 1/1000
     gridSize |-> MathSqrt(ArrLen(result.tiles)),
     tiles |-> Arr(ArrLen(result.tiles), LAMBDA i :
         [id |-> TileId(i),
          content |-> [type |-> "pixels", grid |-> result.tiles[i]]]),
     solutionA |-> Arr(ArrLen(result.solutionA),
                       LAMBDA k : TileId(result.solutionA[k])),
     solutionB |-> Arr(ArrLen(result.solutionB),
                       LAMBDA k : TileId(result.solutionB[k])),
     imageA |-> nameA,
     imageB |-> nameB]

(***************************************************************************)
(* The assignment solver on its own: every n x n matrix, n in 1..MaxN,     *)
(* with scores in 0..MaxScore.                                             *)
(***************************************************************************)
Matrices ==
    UNION {[0..(n - 1) -> [0..(n - 1) -> 0..MaxScore]] : n \in 1..MaxN}

IdleAssign == similarityMatrix = EmptyArr /\ assignment = EmptyArr
IdleExtract == imageData = EmptyArr /\ tiles = EmptyArr
IdleTile == tileA = EmptyArr /\ tileB = EmptyArr /\ similarity = EmptyArr
IdleMatch ==
    /\ imageA = EmptyArr /\ imageB = EmptyArr
    /\ matchResult = EmptyArr /\ puzzle = EmptyArr
IdleCall == args = EmptyArr /\ returned = EmptyArr
IdleShuffle == shuffleResult = EmptyArr /\ attempts = 0
\* the value null of selectedTileIndex
Null == -1

\* the state of a PuzzleGame that was just mounted, but for the arrangement
IdleGame ==
    /\ selectedTileIndex = Null /\ moveCount = 0 /\ flippedTiles = {}
    /\ initialMemo = EmptyArr
    /\ showWinModal = FALSE /\ winTimer = "none"
    /\ lastOp = EmptyArr /\ moves = 0 /\ dismissed = FALSE

IdleApp == puzzleIndex = 0 /\ currentArrangement = EmptyArr /\ IdleGame
IdleModule ==
    xoPuzzle = EmptyArr /\ arrowPuzzle = EmptyArr /\ facePuzzle = EmptyArr
IdleOther == IdleCall /\ IdleShuffle /\ IdleApp /\ IdleModule
IdleMatcher ==
    gridSize = 0 /\ IdleAssign /\ IdleExtract /\ IdleTile /\ IdleMatch

InitAssign ==
    /\ pc = "input"
    /\ similarityMatrix \in Matrices
    /\ assignment = EmptyArr
    /\ gridSize = 0
    /\ IdleExtract /\ IdleTile /\ IdleMatch /\ IdleOther

Assign ==
    /\ pc = "input"
    /\ assignment' = hungarianAlgorithm(similarityMatrix)
    /\ pc' = "assigned"
    /\ UNCHANGED <<similarityMatrix, gridSize, extractVars, tileVars, matchVars,
                   otherVars>>

NextAssign == Assign

SpecAssign == InitAssign /\ [][NextAssign]_vars

(***************************************************************************)
(* extractTiles on its own: every image of 1..MaxImageDim rows and         *)
(* 0..MaxImageDim columns over Colors, every gridSize in 1..MaxGrid (also  *)
(* larger than the image).                                                 *)
(***************************************************************************)
Grids(heights, widths) ==
    UNION {[0..(h - 1) -> [0..(w - 1) -> Colors]] :
              h \in heights, w \in widths}

\* the number of pixels of g that are not Black
Ink(g) ==
    Cardinality({rc \in UNION {{<<r, c>> : c \in DOMAIN g[r]} : r \in DOMAIN g} :
                    g[rc[1]][rc[2]] # Black})

\* the grids that are Black but for at most MaxInk pixels
InkGrids(heights, widths) ==
    {g \in Grids(heights, widths) : Ink(g) <= MaxInk}

InitExtract ==
    /\ pc = "input"
    /\ imageData \in Grids(1..MaxImageDim, 0..MaxImageDim)
    /\ gridSize \in 1..MaxGrid
    /\ tiles = EmptyArr
    /\ IdleAssign /\ IdleTile /\ IdleMatch /\ IdleOther

ExtractTiles ==
    /\ pc = "input"
    /\ tiles' = extractTiles(imageData, gridSize)
    /\ pc' = "extracted"
    /\ UNCHANGED <<imageData, gridSize, assignVars, tileVars, matchVars,
                   otherVars>>

NextExtract == ExtractTiles

SpecExtract == InitExtract /\ [][NextExtract]_vars

(***************************************************************************)
(* tileSimilarity on its own: every pair of tiles of 0..MaxTileDim rows    *)
(* and columns that are Black but for at most MaxInk pixels.               *)
(***************************************************************************)
InitTile ==
    /\ pc = "input"
    /\ tileA \in InkGrids(0..MaxTileDim, 0..MaxTileDim)
    /\ tileB \in InkGrids(0..MaxTileDim, 0..MaxTileDim)
    /\ similarity = EmptyArr
    /\ gridSize = 0
    /\ IdleAssign /\ IdleExtract /\ IdleMatch /\ IdleOther

TileSimilarity ==
    /\ pc = "input"
    /\ similarity' =
         IF tileSimilarityThrows(tileA, tileB)
         THEN [threw |-> TRUE, value |-> 0]
         ELSE [threw |-> FALSE, value |-> tileSimilarity(tileA, tileB)]
    /\ pc' = "compared"
    /\ UNCHANGED <<tileA, tileB, gridSize, assignVars, extractVars, matchVars,
                   otherVars>>

NextTile == TileSimilarity

SpecTile == InitTile /\ [][NextTile]_vars

(***************************************************************************)
(* The assembler: matchImages on every pair of images of 1..MaxMatchDim    *)
(* rows and columns, Black but for at most MaxInk pixels, with a valid     *)
(* gridSize, then createPuzzleFromMatch on what it returned.               *)
(***************************************************************************)
InitMatch ==
    /\ pc = "input"
    /\ imageA \in InkGrids(1..MaxMatchDim, 1..MaxMatchDim)
    /\ imageB \in InkGrids(1..MaxMatchDim, 1..MaxMatchDim)
    /\ gridSize \in 1..MaxMatchDim
    /\ ValidGrid(imageA, gridSize) /\ ValidGrid(imageB, gridSize)
    /\ matchResult = EmptyArr /\ puzzle = EmptyArr
    /\ IdleAssign /\ IdleExtract /\ IdleTile /\ IdleOther

MatchImages ==
    /\ pc = "input"
    /\ matchResult' = matchImages(imageA, imageB, gridSize)
    /\ pc' = "matched"
    /\ UNCHANGED <<imageA, imageB, puzzle, gridSize,
                   assignVars, extractVars, tileVars, otherVars>>

CreatePuzzleFromMatch ==
    /\ pc = "matched"
    /\ ~matchResult.threw
    /\ puzzle' = createPuzzleFromMatch(matchResult, "A", "B", "generated-puzzle")
    /\ pc' = "created"
    /\ UNCHANGED <<imageA, imageB, matchResult, gridSize,
                   assignVars, extractVars, tileVars, otherVars>>

NextMatch == MatchImages \/ CreatePuzzleFromMatch

SpecMatch == InitMatch /\ [][NextMatch]_vars


\* total similarity of the assignment a under matrix m
RECURSIVE TotalOf(_, _, _)
TotalOf(m, a, k) ==
    IF k < 0 THEN 0 ELSE m[k][a[k]] + TotalOf(m, a, k - 1)

Permutations0(n) ==
    {f \in [0..(n - 1) -> 0..(n - 1)] :
        \A x, y \in 0..(n - 1) : f[x] = f[y] => x = y}

IsBijection(a, n) ==
    /\ DOMAIN a = 0..(n - 1)
    /\ \A k \in 0..(n - 1) : a[k] \in 0..(n - 1)
    /\ \A x, y \in 0..(n - 1) : a[x] = a[y] => x = y

\* C1: hungarianAlgorithm returns an array of length N that is a bijection
\* over [0,N): every value in 0..N-1, none left at -1, none twice.
C1_Bijection ==
    pc = "assigned" =>
        IsBijection(assignment, ArrLen(similarityMatrix))

Identity(n) == Arr(n, LAMBDA k : k)

C1_Witness ==
    /\ pc = "assigned"
    /\ ArrLen(similarityMatrix) = 2
    /\ similarityMatrix[0][0] = similarityMatrix[0][1]
    /\ similarityMatrix[1][0] = similarityMatrix[1][1]
    /\ IsBijection(assignment, 2)

\* the largest total similarity any bijection reaches under m
MaxTotal(m) ==
    LET n == ArrLen(m)
        totals == {TotalOf(m, f, n - 1) : f \in Permutations0(n)}
    IN  CHOOSE t \in totals : \A u \in totals : u <= t

AssignedTotal == TotalOf(similarityMatrix, assignment,
                         ArrLen(similarityMatrix) - 1)

StrictDiagonalMax(m) ==
    \A i, j \in DOMAIN m :
        i # j => m[i][i] > m[i][j] /\ m[i][i] > m[j][i]

\* C5: on a matrix whose diagonal entries are strictly greater than every
\* off-diagonal entry of their row and column, hungarianAlgorithm returns
\* the identity permutation.
C5_DiagonalIdentity ==
    (pc = "assigned" /\ StrictDiagonalMax(similarityMatrix)) =>
        assignment = Identity(ArrLen(similarityMatrix))

C5_Witness ==
    /\ pc = "assigned"
    /\ ArrLen(similarityMatrix) = 2
    /\ StrictDiagonalMax(similarityMatrix)
    /\ similarityMatrix[0][1] > similarityMatrix[1][0]
    /\ assignment = Identity(2)

(***************************************************************************)
(* Claims about tileSimilarity (SpecTile).                                 *)
(***************************************************************************)
Rows(t) == ArrLen(t)
Cols(t) == ArrLen(t[0])

\* Number.isNaN(x) is false and 0 <= x <= 1
InUnitRange(x) == ~IsNaN(x) /\ 0 <= x /\ x <= One

\* C6 (as claimed): for equally sized non-empty tiles of valid colours
\* tileSimilarity returns a value in [0,1], never a negative one.
C6_SimilarityInUnitRange ==
    (/\ pc = "compared"
     /\ Rows(tileA) >= 1 /\ Rows(tileA) = Rows(tileB)
     /\ Cols(tileA) >= 1 /\ Cols(tileA) = Cols(tileB))
        => ~similarity.threw /\ InUnitRange(similarity.value)

\* C7 (as claimed): for every tile t, tileSimilarity(t, t) is exactly 1.0.
C7_SelfSimilarityOne ==
    (pc = "compared" /\ tileA = tileB)
        => ~similarity.threw /\ similarity.value = One

\* C7 (amended): tileSimilarity(t, t) is exactly 1.0 for every tile t with at
\* least one row and one column; for a tile whose rows are empty it is NaN,
\* and for a tile with no row the call throws.
C7_SelfSimilarityNonEmpty ==
    (pc = "compared" /\ tileA = tileB) =>
        IF Rows(tileA) = 0 THEN similarity.threw
        ELSE IF Cols(tileA) = 0
        THEN ~similarity.threw /\ IsNaN(similarity.value)
        ELSE ~similarity.threw /\ similarity.value = One

C7_Witness ==
    /\ pc = "compared"
    /\ tileA = tileB
    /\ Rows(tileA) = 2 /\ Cols(tileA) = 2
    /\ tileA[0][1] = White /\ tileA[1][0] = Black
    /\ ~similarity.threw
    /\ similarity.value = One

(***************************************************************************)
(* Claims about extractTiles (SpecExtract).                                *)
(***************************************************************************)
\* C9: extractTiles returns g*g tiles in row-major order, each of
\* floor(h/g) rows and floor(w/g) columns, pixel (r,c) of tile k being the
\* image's pixel ((k div g)*floor(h/g) + r, (k mod g)*floor(w/g) + c); every
\* image pixel above row g*floor(h/g) and left of column g*floor(w/g) is in
\* exactly the tile its position names, and the leftover rows and columns
\* are in none.
C9_ExtractTiles ==
    pc = "extracted" =>
        LET g == gridSize
            h == ArrLen(imageData)
            w == ArrLen(imageData[0])
            th == h \div g
            tw == w \div g
        IN  /\ DOMAIN tiles = 0..(g * g - 1)
            /\ \A k \in DOMAIN tiles :
                  /\ DOMAIN tiles[k] = 0..(th - 1)
                  /\ \A r \in DOMAIN tiles[k] :
                        DOMAIN tiles[k][r] = 0..(tw - 1)
            /\ \A y \in 0..(g * th - 1), x \in 0..(g * tw - 1) :
                  tiles[(y \div th) * g + (x \div tw)][y % th][x % tw]
                      = imageData[y][x]

\* a white pixel in the leftover row of a 3-row image cut with gridSize 2
C9_Witness ==
    /\ pc = "extracted"
    /\ gridSize = 2
    /\ ArrLen(imageData) = 3 /\ ArrLen(imageData[0]) = 2
    /\ imageData[2][0] = White
    /\ imageData[1][1] = White
    /\ tiles[3] = Arr(1, LAMBDA r : Arr(1, LAMBDA c : White))
    /\ tiles[2] = Arr(1, LAMBDA r : Arr(1, LAMBDA c : Black))

(***************************************************************************)
(* Claims about matchImages and createPuzzleFromMatch (SpecMatch).         *)
(***************************************************************************)
Returned == pc \in {"matched", "created"} /\ ~matchResult.threw

\* C2: solutionA and solutionB of a matchImages result are permutations of
\* [0,N), N = gridSize * gridSize.
C2_SolutionsArePermutations ==
    Returned =>
        /\ IsBijection(matchResult.solutionA, gridSize * gridSize)
        /\ IsBijection(matchResult.solutionB, gridSize * gridSize)

C2_Witness ==
    /\ Returned
    /\ gridSize = 2
    /\ matchResult.solutionB # matchResult.solutionA
    /\ IsBijection(matchResult.solutionB, 4)

\* C3: solutionA[i] = i, and solutionB[j] = i for the tile i whose
\* matchDetails entry names tileIndexB = j.
C3_SolutionBIsInverse ==
    Returned =>
        \A i \in DOMAIN matchResult.matchDetails :
            /\ matchResult.solutionA[i] = i
            /\ matchResult.matchDetails[i].tileIndexA = i
            /\ matchResult.solutionB[matchResult.matchDetails[i].tileIndexB] = i

\* a matching that is not its own inverse
C3_Witness ==
    /\ Returned
    /\ \E i \in DOMAIN matchResult.matchDetails :
          matchResult.solutionB[i] # matchResult.matchDetails[i].tileIndexB

\* C8: for identical images every diagonal entry of the similarity matrix
\* is 1.0, the assignment is the identity, and solutionB equals solutionA.
C8_IdenticalImages ==
    (pc = "matched" /\ imageA = imageB) =>
        LET n == gridSize * gridSize
            sims == buildSimilarityMatrix(extractTiles(imageA, gridSize),
                                          extractTiles(imageB, gridSize))
        IN  /\ ~matchResult.threw
            /\ \A i \in 0..(n - 1) :
                  /\ sims[i][i] = One
                  /\ matchResult.matchDetails[i].tileIndexB = i
                  /\ matchResult.matchDetails[i].similarity = One
            /\ matchResult.solutionB = matchResult.solutionA

\* identical images with tiles of the same content and one that differs
C8_Witness ==
    /\ pc = "matched"
    /\ imageA = imageB
    /\ gridSize = 2
    /\ imageA[0][1] = White
    /\ imageA[0][0] = imageA[1][1]
    /\ matchResult.solutionB = Identity(4)

\* the tile ids of a puzzle, in order
TileIds(p) == Arr(ArrLen(p.tiles), LAMBDA i : p.tiles[i].id)

\* the array sol holds every id of ids exactly once
IsArrangementOf(sol, ids) ==
    /\ ArrLen(sol) = ArrLen(ids)
    /\ \A k \in DOMAIN ids :
          Cardinality({x \in DOMAIN sol : sol[x] = ids[k]}) = 1

\* C10: the puzzle made from a matchImages result has the distinct tile ids
\* t0..t(N-1) in order, pixel-grid content, gridSize * gridSize =
\* tiles.length, and solutions that hold every tile id exactly once.
C10_PuzzleFromMatch ==
    pc = "created" =>
        LET n == ArrLen(matchResult.tiles)
        IN  /\ DOMAIN puzzle.tiles = 0..(n - 1)
            /\ \A i \in 0..(n - 1) :
                  /\ puzzle.tiles[i].id = TileId(i)
                  /\ puzzle.tiles[i].content.type = "pixels"
                  /\ puzzle.tiles[i].content.grid = matchResult.tiles[i]
            /\ \A i, k \in 0..(n - 1) :
                  puzzle.tiles[i].id = puzzle.tiles[k].id => i = k
            /\ puzzle.gridSize * puzzle.gridSize = n * One
            /\ IsArrangementOf(puzzle.solutionA, TileIds(puzzle))
            /\ IsArrangementOf(puzzle.solutionB, TileIds(puzzle))

C10_Witness ==
    /\ pc = "created"
    /\ ArrLen(puzzle.tiles) = 4
    /\ puzzle.gridSize = 2000
    /\ puzzle.solutionB # puzzle.solutionA
    /\ puzzle.solutionB[0] # TileId(0)


(***************************************************************************)
(* Arrangement utilities: utils/shuffle.ts and utils/checkSolution.ts.     *)
(***************************************************************************)
\* the value of an array element that was never written
Undefined == <<"undefined">>

\* array[i], undefined outside the array
At(array, i) == IF i \in DOMAIN array THEN array[i] ELSE Undefined

\* array[i] = v; a write past the end lengthens the array, a write at a
\* negative index leaves its elements alone
Put(array, i, v) ==
    IF i < 0 THEN array
    ELSE [k \in 0..(IF i >= ArrLen(array) THEN i ELSE ArrLen(array) - 1) |->
             IF k = i THEN v ELSE At(array, k)] @@ <<>>

\* [result[indexA], result[indexB]] = [result[indexB], result[indexA]]
SwapElements(array, indexA, indexB) ==
    Put(Put(array, indexA, At(array, indexB)), indexB, At(array, indexA))

\* the values j = Math.floor(Math.random() * (i + 1)) the model draws: i
\* itself and the values below MaxRandom
RandomIndex(i) == {j \in 0..i : j < MaxRandom \/ j = i}

\* the loop of shuffle from index i down: the set of its outcomes
RECURSIVE ShuffleFrom(_, _)
ShuffleFrom(array, i) ==
    IF i <= 0 THEN {array}
    ELSE UNION {ShuffleFrom(SwapElements(array, i, j), i - 1) :
                   j \in RandomIndex(i)}

\* shuffle: the set of arrays it can return
shuffle(array) == ShuffleFrom(array, ArrLen(array) - 1)

\* the comparison without the test of the lengths
arraysEqualNoLength(a, b) == \A idx \in DOMAIN a : a[idx] = At(b, idx)

arraysEqual(a, b) ==
    IF ArrLen(a) # ArrLen(b) THEN FALSE
    ELSE \A idx \in DOMAIN a : a[idx] = b[idx]

\* the condition of the while loop of shuffleUntilUnsolved
StillSolved(res, tries, solutionA, solutionB, maxAttempts) ==
    /\ tries < maxAttempts
    /\ arraysEqual(res, solutionA) \/ arraysEqual(res, solutionB)

\* shuffleUntilUnsolved: the set of arrays it can return, which is a shuffle
\* that is no solution or, after maxAttempts further shuffles, any shuffle
shuffleUntilUnsolved(tileIds, solutionA, solutionB, maxAttempts) ==
    {res \in shuffle(tileIds) :
        \/ ~StillSolved(res, 0, solutionA, solutionB, maxAttempts)
        \/ ~StillSolved(res, maxAttempts, solutionA, solutionB, maxAttempts)}

checkSolution(arrangement, solutionA, solutionB) ==
    LET solvedA == arraysEqual(arrangement, solutionA)
        solvedB == arraysEqual(arrangement, solutionB)
    IN  [solvedA |-> solvedA, solvedB |-> solvedB,
         solved |-> solvedA \/ solvedB]

\* result[indexA] = result[indexB] alone
swapTilesOverwrite(arrangement, indexA, indexB) ==
    Put(arrangement, indexA, At(arrangement, indexB))

\* swapTiles returns the copy; the argument is not written
swapTiles(arrangement, indexA, indexB) ==
    SwapElements(arrangement, indexA, indexB)

(***************************************************************************)
(* The puzzles of puzzles/index.ts and the App that offers them.  A tile   *)
(* is modelled by its id, the string `t<k>` by TileId(k).                  *)
(***************************************************************************)
\* an array literal of tile ids ['t<k1>', 't<k2>', ...]
Ids(ks) == [p \in 0..(Len(ks) - 1) |-> TileId(ks[p + 1])] @@ <<>>

colorBlockPuzzle ==
    [id |-> "color-block-1",
     gridSize |-> 3,
     tiles |-> Ids(<<0, 1, 2, 3, 4, 5, 6, 7, 8>>),
     solutionA |-> Ids(<<0, 1, 2, 3, 4, 5, 6, 7, 8>>),
     solutionB |-> Ids(<<6, 3, 0, 7, 4, 1, 8, 5, 2>>)]

lineContinuationPuzzle ==
    [id |-> "line-continuation-1",
     gridSize |-> 3,
     tiles |-> Ids(<<0, 1, 2, 3, 4, 5, 6, 7, 8>>),
     solutionA |-> Ids(<<2, 0, 3, 1, 6, 1, 5, 0, 4>>),
     solutionB |-> Ids(<<2, 3, 2, 5, 6, 3, 5, 4, 4>>)]

puzzleList == (0 :> colorBlockPuzzle) @@ (1 :> lineContinuationPuzzle)

\* the default of the parameter maxAttempts
maxAttempts == 100

\* usePuzzleState(puzzle): the initial arrangements it can come up with
initialArrangement(p) ==
    shuffleUntilUnsolved(p.tiles, p.solutionA, p.solutionB, maxAttempts)

InitApp ==
    /\ pc = "playing"
    /\ puzzleIndex = 0
    /\ currentArrangement \in initialArrangement(puzzleList[puzzleIndex])
    /\ IdleGame
    /\ IdleMatcher /\ IdleCall /\ IdleShuffle /\ IdleModule

\* "Next Puzzle": setPuzzleIndex, and the new key remounts PuzzleGame, whose
\* usePuzzleState shuffles the tiles of the new puzzle
handleNextPuzzle ==
    /\ pc = "playing"
    /\ puzzleIndex' = (puzzleIndex + 1) % ArrLen(puzzleList)
    /\ currentArrangement' \in initialArrangement(puzzleList[puzzleIndex'])
    /\ UNCHANGED <<pc, gameVars, matcherVars, callVars, shuffleVars, moduleVars>>

NextApp == handleNextPuzzle

SpecApp == InitApp /\ [][NextApp]_vars

\* C11 (as claimed): solutionA and solutionB of every puzzle offered to the
\* game hold every tile id of the puzzle exactly once.
C11_OfferedSolutionsArePermutations ==
    pc = "playing" =>
        LET p == puzzleList[puzzleIndex]
        IN  /\ IsArrangementOf(p.solutionA, p.tiles)
            /\ IsArrangementOf(p.solutionB, p.tiles)


(***************************************************************************)
(* shuffleUntilUnsolved step by step: every list of 0..MaxTiles tile ids,  *)
(* every pair of orderings of it as the solutions, the default             *)
(* maxAttempts.                                                            *)
(***************************************************************************)
\* the orderings of the ids t0..t(n-1)
Orderings(n) == {Arr(n, LAMBDA k : TileId(f[k])) : f \in Permutations0(n)}

ShuffleArgs ==
    UNION {[tileIds : {Arr(n, LAMBDA k : TileId(k))},
            solutionA : Orderings(n),
            solutionB : Orderings(n),
            maxAttempts : {maxAttempts}] : n \in 0..MaxTiles}

InitShuffle ==
    /\ pc = "input"
    /\ args \in ShuffleArgs
    /\ returned = EmptyArr
    /\ IdleShuffle
    /\ IdleMatcher /\ IdleApp /\ IdleModule

\* let result = shuffle(tileIds); let attempts = 0;
ShuffleFirst ==
    /\ pc = "input"
    /\ shuffleResult' \in shuffle(args.tileIds)
    /\ attempts' = 0
    /\ pc' = "while"
    /\ UNCHANGED <<callVars, matcherVars, appVars, moduleVars>>

\* the body of the while loop
ShuffleAgain ==
    /\ pc = "while"
    /\ StillSolved(shuffleResult, attempts, args.solutionA, args.solutionB,
                   args.maxAttempts)
    /\ shuffleResult' \in shuffle(args.tileIds)
    /\ attempts' = attempts + 1
    /\ UNCHANGED <<pc, callVars, matcherVars, appVars, moduleVars>>

\* return result
ShuffleReturn ==
    /\ pc = "while"
    /\ ~StillSolved(shuffleResult, attempts, args.solutionA, args.solutionB,
                    args.maxAttempts)
    /\ returned' = shuffleResult
    /\ pc' = "returned"
    /\ UNCHANGED <<args, shuffleVars, matcherVars, appVars, moduleVars>>

NextShuffle == ShuffleFirst \/ ShuffleAgain \/ ShuffleReturn

SpecShuffle == InitShuffle /\ [][NextShuffle]_vars

\* C13 (as claimed): the arrangement shuffleUntilUnsolved returns equals
\* neither solutionA nor solutionB.
C13_ReturnsUnsolved ==
    pc = "returned" =>
        /\ returned # args.solutionA
        /\ returned # args.solutionB

(***************************************************************************)
(* checkSolution and swapTiles on their own: arrays of 0..MaxTiles ids out *)
(* of t0..t(MaxTiles-1), indices in 0..MaxTiles-1.                         *)
(***************************************************************************)
IdArrays ==
    UNION {[0..(n - 1) -> {TileId(k) : k \in 0..(MaxTiles - 1)}] :
              n \in 0..MaxTiles}

ArrangeArgs ==
    [fn : {"checkSolution"}, currentArrangement : IdArrays,
     solutionA : IdArrays, solutionB : IdArrays]
    \cup
    [fn : {"swapTiles"}, arrangement : IdArrays,
     indexA : 0..(MaxTiles - 1), indexB : 0..(MaxTiles - 1)]

InitArrange ==
    /\ pc = "input"
    /\ args \in ArrangeArgs
    /\ returned = EmptyArr
    /\ IdleMatcher /\ IdleShuffle /\ IdleApp /\ IdleModule

CheckSolution ==
    /\ pc = "input"
    /\ args.fn = "checkSolution"
    /\ returned' = checkSolution(args.currentArrangement, args.solutionA,
                                 args.solutionB)
    /\ pc' = "returned"
    /\ UNCHANGED <<args, matcherVars, shuffleVars, appVars, moduleVars>>

\* swapTiles written without the copy: the swap made in the argument
SwapTilesInPlace ==
    /\ pc = "input"
    /\ args.fn = "swapTiles"
    /\ returned' = swapTiles(args.arrangement, args.indexA, args.indexB)
    /\ args' = [args EXCEPT !.arrangement = returned']
    /\ pc' = "returned"
    /\ UNCHANGED <<matcherVars, shuffleVars, appVars, moduleVars>>

\* swapTiles works on the copy [...arrangement]: the argument is not written
SwapTiles ==
    /\ pc = "input"
    /\ args.fn = "swapTiles"
    /\ returned' = swapTiles(args.arrangement, args.indexA, args.indexB)
    /\ pc' = "returned"
    /\ UNCHANGED <<args, matcherVars, shuffleVars, appVars, moduleVars>>

\* the same swap applied to what the first call returned
SwapTilesAgain ==
    /\ pc = "returned"
    /\ args.fn = "swapTiles"
    /\ returned' = swapTiles(returned, args.indexA, args.indexB)
    /\ pc' = "returned twice"
    /\ UNCHANGED <<args, matcherVars, shuffleVars, appVars, moduleVars>>

NextArrange == CheckSolution \/ SwapTiles \/ SwapTilesAgain

SpecArrange == InitArrange /\ [][NextArrange]_vars


\* C18: solvedA holds exactly when currentArrangement and solutionA have the
\* same length and the same id at every position, solvedB likewise for
\* solutionB, and solved = solvedA or solvedB.
C18_CheckSolution ==
    (pc = "returned" /\ args.fn = "checkSolution") =>
        LET SameAt(a, b) ==
                /\ ArrLen(a) = ArrLen(b)
                /\ \A k \in 0..(ArrLen(a) - 1) : At(a, k) = At(b, k)
        IN  /\ returned.solvedA
                <=> SameAt(args.currentArrangement, args.solutionA)
            /\ returned.solvedB
                <=> SameAt(args.currentArrangement, args.solutionB)
            /\ returned.solved <=> (returned.solvedA \/ returned.solvedB)

\* a different ordering of the ids of solutionA, and a solutionB of which
\* the arrangement is a prefix: not solved
C18_Witness ==
    /\ pc = "returned" /\ args.fn = "checkSolution"
    /\ args.solutionA = Ids(<<0, 1>>)
    /\ args.currentArrangement = Ids(<<1, 0>>)
    /\ ArrLen(args.solutionB) = 1
    /\ ~returned.solved

\* C19: for valid indices swapTiles returns an array with arrangement[b] at a
\* and arrangement[a] at b that equals arrangement elsewhere, the argument
\* still holding its elements; a swap of an index with itself returns an
\* equal array, and the same swap applied again restores the order.
C19_SwapTiles ==
    (/\ pc \in {"returned", "returned twice"}
     /\ args.fn = "swapTiles"
     /\ args.indexA \in DOMAIN args.arrangement
     /\ args.indexB \in DOMAIN args.arrangement)
        => IF pc = "returned twice" THEN returned = args.arrangement
           ELSE /\ DOMAIN returned = DOMAIN args.arrangement
                /\ returned[args.indexA] = args.arrangement[args.indexB]
                /\ returned[args.indexB] = args.arrangement[args.indexA]
                /\ \A k \in DOMAIN returned \ {args.indexA, args.indexB} :
                       returned[k] = args.arrangement[k]
                /\ args.indexA = args.indexB => returned = args.arrangement

C19_Witness ==
    /\ pc = "returned"
    /\ args.fn = "swapTiles"
    /\ args.arrangement = Ids(<<0, 1>>)
    /\ args.indexA = 0 /\ args.indexB = 1
    /\ returned = Ids(<<1, 0>>)


(***************************************************************************)
(* Colour utilities: rgbToHex, remapToPalette, blendTiles with any weight, *)
(* normalizeLuminance.  A number that need not be an integer is a fraction *)
(* <<num, den>> with den >= 0; <<n, 0>> is Infinity for n > 0, -Infinity   *)
(* for n < 0 and NaN for n = 0.                                            *)
(***************************************************************************)
Frac(num, den) == <<num, den>>
Whole(n) == Frac(n, 1)
IsNaNFrac(x) == x[1] = 0 /\ x[2] = 0

RECURSIVE Gcd(_, _)
Gcd(a, b) == IF b = 0 THEN a ELSE Gcd(b, a % b)

Abs(n) == IF n < 0 THEN -n ELSE n

\* the same number in lowest terms
Lowest(x) ==
    LET g == Gcd(Abs(x[1]), x[2])
    IN  IF g = 0 THEN x ELSE Frac(x[1] \div g, x[2] \div g)

\* Math.round(Math.max(0, Math.min(255, x))): NaN stays NaN, halves go up
RoundClamped(x) ==
    IF IsNaNFrac(x) THEN NaN
    ELSE IF x[1] <= 0 THEN 0
    ELSE IF x[2] = 0 \/ x[1] >= 255 * x[2] THEN 255
    ELSE (2 * x[1] + x[2]) \div (2 * x[2])

\* the characters of "NaN" as digits of base 36, 'a' being the digit 10
NaNText == <<23, 10, 23>>

\* a channel written without Math.max and Math.min
HexChannelUnclamped(x) ==
    IF IsNaNFrac(x) THEN NaNText
    ELSE PadStart2(ToString16((2 * x[1] + x[2]) \div (2 * x[2])))

\* Math.round(...).toString(16).padStart(2, '0') of one channel
HexChannel(x) ==
    LET v == RoundClamped(x)
    IN  IF IsNaN(v) THEN NaNText ELSE PadStart2(ToString16(v))

\* the digits after the '#'
rgbToHex(r, g, b) == HexChannel(r) \o HexChannel(g) \o HexChannel(b)

\* Math.pow(r - pr, 2) + Math.pow(g - pg, 2) + Math.pow(b - pb, 2)
SquaredDistance(p, q) ==
    (p[1] - q[1]) * (p[1] - q[1]) + (p[2] - q[2]) * (p[2] - q[2])
        + (p[3] - q[3]) * (p[3] - q[3])

\* the index the loop over paletteRgb ends with: the first palette entry of
\* the least distance (dist < bestDist keeps the earlier one)
NearestIndex(rgb, paletteRgb) ==
    CHOOSE i \in DOMAIN paletteRgb :
        /\ \A k \in DOMAIN paletteRgb :
              SquaredDistance(rgb, paletteRgb[i])
                  <= SquaredDistance(rgb, paletteRgb[k])
        /\ \A k \in 0..(i - 1) :
              SquaredDistance(rgb, paletteRgb[k])
                  > SquaredDistance(rgb, paletteRgb[i])

\* the last palette entry of the least distance (dist <= bestDist)
remapToPaletteLastWins(image, palette) ==
    LET paletteRgb == Arr(ArrLen(palette), LAMBDA i : hexToRgb(palette[i]))
        Last(rgb) ==
            CHOOSE i \in DOMAIN paletteRgb :
                /\ \A k \in DOMAIN paletteRgb :
                      SquaredDistance(rgb, paletteRgb[i])
                          <= SquaredDistance(rgb, paletteRgb[k])
                /\ \A k \in DOMAIN paletteRgb :
                      k > i => SquaredDistance(rgb, paletteRgb[k])
                                   > SquaredDistance(rgb, paletteRgb[i])
    IN  Arr(ArrLen(image), LAMBDA r :
            Arr(ArrLen(image[r]), LAMBDA c :
                IF ArrLen(palette) = 0 THEN Undefined
                ELSE palette[Last(hexToRgb(image[r][c]))]))

\* for an empty palette every pixel becomes palette[0], undefined
remapToPalette(image, palette) ==
    LET paletteRgb == Arr(ArrLen(palette), LAMBDA i : hexToRgb(palette[i]))
    IN  Arr(ArrLen(image), LAMBDA r :
            Arr(ArrLen(image[r]), LAMBDA c :
                IF ArrLen(palette) = 0 THEN Undefined
                ELSE palette[NearestIndex(hexToRgb(image[r][c]), paletteRgb)]))

\* x + y, x / 2, x / y and c * x on fractions that are not negative
FracPlus(x, y) == Lowest(Frac(x[1] * y[2] + y[1] * x[2], x[2] * y[2]))
FracHalf(x) == Lowest(Frac(x[1], 2 * x[2]))
FracOver(x, y) == Lowest(Frac(x[1] * y[2], x[2] * y[1]))
FracTimes(c, x) == Lowest(Frac(c * x[1], x[2]))

\* Math.min(255, x)
MathMin255(x) ==
    IF IsNaNFrac(x) THEN x
    ELSE IF x[2] = 0 \/ x[1] >= 255 * x[2] THEN Whole(255)
    ELSE x

\* 0.299 * r + 0.587 * g + 0.114 * b, in 1/1000
getLuminance(r, g, b) == 299 * r + 587 * g + 114 * b

\* lumSum and count of the two loops over the pixels of an image
LumSum(image) ==
    LET RowSum(r) ==
            LET lum == Arr(ArrLen(image[r]), LAMBDA c :
                           LET p == hexToRgb(image[r][c])
                           IN  getLuminance(p[1], p[2], p[3]))
            IN  SumTo(lum, ArrLen(image[r]) - 1)
        rows == Arr(ArrLen(image), RowSum)
    IN  SumTo(rows, ArrLen(image) - 1)

PixelCount(image) ==
    LET rows == Arr(ArrLen(image), LAMBDA r : ArrLen(image[r]))
    IN  SumTo(rows, ArrLen(image) - 1)

\* lumSum / count, in 1/1000: NaN for an image without pixels
AvgLum(image) == Lowest(Frac(LumSum(image), PixelCount(image)))

\* adjustImage with the factor turned upside down
adjustImageInverse(image, currentAvg, targetLum) ==
    LET factor == FracOver(currentAvg, targetLum)
        Adjust(pixel) ==
            LET p == hexToRgb(pixel)
            IN  rgbToHex(MathMin255(FracTimes(p[1], factor)),
                         MathMin255(FracTimes(p[2], factor)),
                         MathMin255(FracTimes(p[3], factor)))
    IN  Arr(ArrLen(image), LAMBDA r :
            Arr(ArrLen(image[r]), LAMBDA c : Adjust(image[r][c])))

adjustImage(image, currentAvg, targetLum) ==
    LET factor == FracOver(targetLum, currentAvg)
        Adjust(pixel) ==
            LET p == hexToRgb(pixel)
            IN  rgbToHex(MathMin255(FracTimes(p[1], factor)),
                         MathMin255(FracTimes(p[2], factor)),
                         MathMin255(FracTimes(p[3], factor)))
    IN  Arr(ArrLen(image), LAMBDA r :
            Arr(ArrLen(image[r]), LAMBDA c : Adjust(image[r][c])))

normalizeLuminance(imgA, imgB) ==
    LET avgLumA == AvgLum(imgA)
        avgLumB == AvgLum(imgB)
        targetLum == FracHalf(FracPlus(avgLumA, avgLumB))
    IN  [normalizedA |-> adjustImage(imgA, avgLumA, targetLum),
         normalizedB |-> adjustImage(imgB, avgLumB, targetLum)]

(***************************************************************************)
(* The colour utilities on their own.  rgbToHex gets every integer of      *)
(* -MaxOver..255+MaxOver in one channel and a sample in the two others;    *)
(* remapToPalette gets every image of 0..MaxBlendDim rows and columns     *)
(* that is Black but for at most MaxInk pixels out of PaintColors, and     *)
(* every palette of 0..MaxPalette colours; blendTiles gets every pair of   *)
(* such tiles of at most one row and 0..MaxBlendDim columns and every      *)
(* weight of Weights; normalizeLuminance gets every pair of images of at   *)
(* most one row and 0..MaxTileDim columns with at most MaxInk + 1 pixels   *)
(* that are not Black.                                                     *)
(***************************************************************************)
Red == <<15, 15, 0, 0, 0, 0>>
Green == <<0, 0, 15, 15, 0, 0>>

Gray == <<8, 0, 8, 0, 8, 0>>

PaintColors == {Black, White, Red, Green, Gray}

\* the grids of h rows and w columns that are Black but for at most ink
\* pixels, which have a colour of PaintColors
RECURSIVE Painted(_, _, _)
Painted(h, w, ink) ==
    IF ink = 0 THEN {[r \in 0..(h - 1) |-> [c \in 0..(w - 1) |-> Black]]}
    ELSE LET less == Painted(h, w, ink - 1)
         IN  less \cup {[g EXCEPT ![r][c] = colour] :
                           g \in less, r \in 0..(h - 1), c \in 0..(w - 1),
                           colour \in PaintColors}

PaintGrids(heights, widths) ==
    UNION {Painted(h, w, MaxInk) : h \in heights, w \in widths}

BrightGrids ==
    UNION {Painted(h, w, MaxInk + 1) : h \in 0..1, w \in 0..MaxTileDim}

Palettes == UNION {[0..(n - 1) -> PaintColors] : n \in 0..MaxPalette}

Sweep == (0 - MaxOver)..(255 + MaxOver)

Samples == {0 - MaxOver, 0, 128, 255, 255 + MaxOver}

\* weightA in 1/100: -1, 0, 0.25, 0.5 (the default), 0.75, 1 and 2
Weights == {0 - 100, 0, 25, 50, 75, 100, 200}

ColorArgs ==
    [fn : {"rgbToHex"}, r : Sweep, g : Samples, b : Samples]
    \cup
    [fn : {"rgbToHex"}, r : Samples, g : Sweep, b : Samples]
    \cup
    [fn : {"rgbToHex"}, r : Samples, g : Samples, b : Sweep]
    \cup
    [fn : {"remapToPalette"},
     image : PaintGrids(0..MaxBlendDim, 0..MaxBlendDim), palette : Palettes]
    \cup
    [fn : {"blendTiles"},
     tileA : PaintGrids(0..1, 0..MaxBlendDim),
     tileB : PaintGrids(0..1, 0..MaxBlendDim), weightA : Weights]
    \cup
    [fn : {"normalizeLuminance"}, imageA : BrightGrids, imageB : BrightGrids]

InitColor ==
    /\ pc = "input"
    /\ args \in ColorArgs
    /\ returned = EmptyArr
    /\ IdleMatcher /\ IdleShuffle /\ IdleApp /\ IdleModule

RgbToHex ==
    /\ pc = "input"
    /\ args.fn = "rgbToHex"
    /\ returned' = rgbToHex(Whole(args.r), Whole(args.g), Whole(args.b))
    /\ pc' = "returned"
    /\ UNCHANGED <<args, matcherVars, shuffleVars, appVars, moduleVars>>

\* hexToRgb applied to what rgbToHex returned
HexToRgb ==
    /\ pc = "returned"
    /\ args.fn = "rgbToHex"
    /\ returned' = hexToRgb(returned)
    /\ pc' = "parsed"
    /\ UNCHANGED <<args, matcherVars, shuffleVars, appVars, moduleVars>>

RemapToPalette ==
    /\ pc = "input"
    /\ args.fn = "remapToPalette"
    /\ returned' = remapToPalette(args.image, args.palette)
    /\ pc' = "returned"
    /\ UNCHANGED <<args, matcherVars, shuffleVars, appVars, moduleVars>>

BlendTiles ==
    /\ pc = "input"
    /\ args.fn = "blendTiles"
    /\ returned' =
         IF blendTilesThrows(args.tileA, args.tileB)
         THEN [threw |-> TRUE, value |-> EmptyArr]
         ELSE [threw |-> FALSE,
               value |-> blendTiles(args.tileA, args.tileB, args.weightA)]
    /\ pc' = "returned"
    /\ UNCHANGED <<args, matcherVars, shuffleVars, appVars, moduleVars>>

NormalizeLuminance ==
    /\ pc = "input"
    /\ args.fn = "normalizeLuminance"
    /\ returned' = normalizeLuminance(args.imageA, args.imageB)
    /\ pc' = "returned"
    /\ UNCHANGED <<args, matcherVars, shuffleVars, appVars, moduleVars>>

NextColor ==
    RgbToHex \/ HexToRgb \/ RemapToPalette \/ BlendTiles \/ NormalizeLuminance

SpecColor == InitColor /\ [][NextColor]_vars

\* n brought into 0..255
Clamp255(n) == IF n < 0 THEN 0 ELSE IF n > 255 THEN 255 ELSE n

\* C14: with a non-empty palette, remapToPalette returns an image of the
\* dimensions of its input in which every pixel is the palette colour of
\* the least squared RGB distance to the input pixel, the earliest such
\* palette entry when several are equally near.
C14_RemapNearest ==
    (pc = "returned" /\ args.fn = "remapToPalette"
        /\ ArrLen(args.palette) > 0) =>
        /\ DOMAIN returned = DOMAIN args.image
        /\ \A r \in DOMAIN args.image :
              /\ DOMAIN returned[r] = DOMAIN args.image[r]
              /\ \A c \in DOMAIN args.image[r] :
                    \E i \in DOMAIN args.palette :
                        LET Dist(k) ==
                                SquaredDistance(hexToRgb(args.image[r][c]),
                                                hexToRgb(args.palette[k]))
                        IN  /\ returned[r][c] = args.palette[i]
                            /\ \A k \in DOMAIN args.palette : Dist(i) <= Dist(k)
                            /\ \A k \in 0..(i - 1) : Dist(k) # Dist(i)

\* a pixel equally near to two different palette colours got the first
C14_Witness ==
    /\ pc = "returned" /\ args.fn = "remapToPalette"
    /\ ArrLen(args.palette) = 2
    /\ args.palette[0] # args.palette[1]
    /\ \E r \in DOMAIN args.image : \E c \in DOMAIN args.image[r] :
          /\ SquaredDistance(hexToRgb(args.image[r][c]),
                             hexToRgb(args.palette[0]))
               = SquaredDistance(hexToRgb(args.image[r][c]),
                                 hexToRgb(args.palette[1]))
          /\ returned[r][c] = args.palette[0]

\* C15: rgbToHex returns six hex digits, two per channel, that spell each
\* integer channel brought into 0..255, and hexToRgb of what it returned
\* for channels in 0..255 gives the three channels back.
C15_RgbHexRoundTrip ==
    /\ (pc = "returned" /\ args.fn = "rgbToHex") =>
          /\ Len(returned) = 6
          /\ \A i \in 1..6 : returned[i] \in 0..15
          /\ 16 * returned[1] + returned[2] = Clamp255(args.r)
          /\ 16 * returned[3] + returned[4] = Clamp255(args.g)
          /\ 16 * returned[5] + returned[6] = Clamp255(args.b)
    /\ (pc = "parsed" /\ args.fn = "rgbToHex"
          /\ {args.r, args.g, args.b} \subseteq 0..255) =>
          returned = <<args.r, args.g, args.b>>

\* a channel below 16, padded to two digits, came back from the round trip
C15_Witness ==
    /\ pc = "parsed" /\ args.fn = "rgbToHex"
    /\ args.r = 10 /\ args.g = 128 /\ args.b = 255
    /\ returned = <<10, 128, 255>>


\* C16: blendTiles returns a tile of the dimensions of tileA in which every
\* pixel is six hex digits, two per channel, spelling
\* round(cA * weightA + cB * (1 - weightA)) brought into 0..255, for every
\* weight, also outside [0, 1].
C16_BlendClamped ==
    (pc = "returned" /\ args.fn = "blendTiles" /\ ~returned.threw) =>
        /\ DOMAIN returned.value = DOMAIN args.tileA
        /\ \A r \in DOMAIN args.tileA :
              /\ DOMAIN returned.value[r] = DOMAIN args.tileA[r]
              /\ \A c \in DOMAIN args.tileA[r] :
                    LET p == hexToRgb(args.tileA[r][c])
                        q == hexToRgb(args.tileB[r][c])
                        hex == returned.value[r][c]
                        Blend(k) ==
                            Clamp255(MathRound100(p[k] * args.weightA
                                         + q[k] * (100 - args.weightA)))
                    IN  /\ Len(hex) = 6
                        /\ \A i \in 1..6 : hex[i] \in 0..15
                        /\ \A k \in 1..3 :
                              16 * hex[2 * k - 1] + hex[2 * k] = Blend(k)

\* the average luminance of A is above that of B, and both are positive
BrighterA ==
    LET a == AvgLum(args.imageA)
        b == AvgLum(args.imageB)
    IN  /\ a[2] > 0 /\ b[2] > 0 /\ b[1] > 0
        /\ a[1] * b[2] > b[1] * a[2]

\* C20: when the average luminance of A is above that of B and both are
\* positive, normalizeLuminance lowers or keeps every channel of every
\* pixel of A and raises or keeps every channel of every pixel of B, none
\* above 255; the average luminance of the new A stays at or below the old
\* one and comes down to the target (avgLumA + avgLumB) / 2 within the
\* rounding of a channel (0.5), and that of the new B stays at or above
\* the old one and below the target plus 0.5.
C20_NormalizeLuminance ==
    (pc = "returned" /\ args.fn = "normalizeLuminance" /\ BrighterA) =>
        LET SA == LumSum(args.imageA)
            SB == LumSum(args.imageB)
            cA == PixelCount(args.imageA)
            cB == PixelCount(args.imageB)
            NA == LumSum(returned.normalizedA)
            NB == LumSum(returned.normalizedB)
        IN  /\ DOMAIN returned.normalizedA = DOMAIN args.imageA
            /\ DOMAIN returned.normalizedB = DOMAIN args.imageB
            /\ \A r \in DOMAIN args.imageA : \A c \in DOMAIN args.imageA[r] :
                  \A k \in 1..3 :
                      /\ hexToRgb(returned.normalizedA[r][c])[k] >= 0
                      /\ hexToRgb(returned.normalizedA[r][c])[k]
                            <= hexToRgb(args.imageA[r][c])[k]
            /\ \A r \in DOMAIN args.imageB : \A c \in DOMAIN args.imageB[r] :
                  \A k \in 1..3 :
                      /\ hexToRgb(returned.normalizedB[r][c])[k] <= 255
                      /\ hexToRgb(returned.normalizedB[r][c])[k]
                            >= hexToRgb(args.imageB[r][c])[k]
            /\ NA <= SA
            /\ 2 * cB * NA >= SA * cB + SB * cA - 1000 * cA * cB
            /\ NB >= SB
            /\ 2 * cA * NB <= SA * cB + SB * cA + 1000 * cA * cB

\* a channel of A came out lower and a channel of B higher, below 255
C20_Witness ==
    /\ pc = "returned" /\ args.fn = "normalizeLuminance" /\ BrighterA
    /\ \E r \in DOMAIN args.imageA : \E c \in DOMAIN args.imageA[r] :
          hexToRgb(returned.normalizedA[r][c])[1]
              < hexToRgb(args.imageA[r][c])[1]
    /\ \E r \in DOMAIN args.imageB : \E c \in DOMAIN args.imageB[r] :
          /\ hexToRgb(returned.normalizedB[r][c])[1]
                > hexToRgb(args.imageB[r][c])[1]
          /\ hexToRgb(returned.normalizedB[r][c])[1] < 255

(***************************************************************************)
(* The module puzzles/generated.ts: its top-level statements run once,     *)
(* when the module is loaded.  The three pairs of images are inputs: each  *)
(* is a pair of GenPairs, with which matchImages throws or returns.        *)
(***************************************************************************)
\* the third argument of the three matchImages calls
generatedGridSize == 3

\* a 1 x 1 image: cut in 3 x 3 it gives tiles without rows
Tiny == Arr(1, LAMBDA r : Arr(1, LAMBDA c : Black))
Blank == Arr(3, LAMBDA r : Arr(3, LAMBDA c : Black))
Dot == Arr(3, LAMBDA r : Arr(3, LAMBDA c : IF r = 0 /\ c = 0 THEN White ELSE Black))

\* "let xoPuzzle: Puzzle;": the variable before its first assignment, as
\* a record so that it compares with a puzzle
UndefinedPuzzle == [id |-> "undefined"]

GenPairs == {<<Tiny, Tiny>>, <<Blank, Blank>>, <<Dot, Blank>>}

InitGenerated ==
    /\ pc = "load"
    /\ \E ab \in GenPairs, cd \in GenPairs, ef \in GenPairs :
          args = [imageA |-> ab[1], imageB |-> ab[2],
                  imageC |-> cd[1], imageD |-> cd[2],
                  imageE |-> ef[1], imageF |-> ef[2]]
    /\ returned = EmptyArr
    /\ xoPuzzle = UndefinedPuzzle /\ arrowPuzzle = UndefinedPuzzle
    /\ facePuzzle = UndefinedPuzzle
    /\ IdleMatcher /\ IdleShuffle /\ IdleApp

\* const xoMatch = matchImages(imageA, imageB, 3)
MatchXo ==
    /\ pc = "load"
    /\ returned' = matchImages(args.imageA, args.imageB, generatedGridSize)
    /\ pc' = IF returned'.threw THEN "catch" ELSE "xoMatch"
    /\ UNCHANGED <<args, moduleVars, matcherVars, shuffleVars, appVars>>

CreateXo ==
    /\ pc = "xoMatch"
    /\ xoPuzzle' = createPuzzleFromMatch(returned, "X Pattern", "O Pattern",
                                         "generated-xo")
    /\ pc' = "xoPuzzle"
    /\ UNCHANGED <<args, returned, arrowPuzzle, facePuzzle,
                   matcherVars, shuffleVars, appVars>>

MatchArrow ==
    /\ pc = "xoPuzzle"
    /\ returned' = matchImages(args.imageC, args.imageD, generatedGridSize)
    /\ pc' = IF returned'.threw THEN "catch" ELSE "arrowMatch"
    /\ UNCHANGED <<args, moduleVars, matcherVars, shuffleVars, appVars>>

CreateArrow ==
    /\ pc = "arrowMatch"
    /\ arrowPuzzle' = createPuzzleFromMatch(returned, "Up Arrow", "Down Arrow",
                                            "generated-arrow")
    /\ pc' = "arrowPuzzle"
    /\ UNCHANGED <<args, returned, xoPuzzle, facePuzzle,
                   matcherVars, shuffleVars, appVars>>

MatchFace ==
    /\ pc = "arrowPuzzle"
    /\ returned' = matchImages(args.imageE, args.imageF, generatedGridSize)
    /\ pc' = IF returned'.threw THEN "catch" ELSE "faceMatch"
    /\ UNCHANGED <<args, moduleVars, matcherVars, shuffleVars, appVars>>

CreateFace ==
    /\ pc = "faceMatch"
    /\ facePuzzle' = createPuzzleFromMatch(returned, "Happy Face", "Sad Face",
                                           "generated-face")
    /\ pc' = "exported"
    /\ UNCHANGED <<args, returned, xoPuzzle, arrowPuzzle,
                   matcherVars, shuffleVars, appVars>>

\* the fallback xoPuzzle of the catch clause; gridSize in 1/1000
FallbackPuzzle ==
    [id |-> "generated-xo",
     name |-> <<"X", "<->", "O">>,
     gridSize |-> 1000 * generatedGridSize,
     tiles |-> EmptyArr,
     solutionA |-> EmptyArr,
     solutionB |-> EmptyArr,
     imageA |-> "X Pattern",
     imageB |-> "O Pattern"]

\* a catch clause that gives a fallback only to the puzzles not yet made
CatchKeepingGenerated ==
    /\ pc = "catch"
    /\ xoPuzzle' = IF xoPuzzle = UndefinedPuzzle THEN FallbackPuzzle ELSE xoPuzzle
    /\ arrowPuzzle' =
         IF arrowPuzzle = UndefinedPuzzle
         THEN [FallbackPuzzle EXCEPT !.id = "generated-arrow",
                                     !.name = <<"Arrow">>]
         ELSE arrowPuzzle
    /\ facePuzzle' = [FallbackPuzzle EXCEPT !.id = "generated-face",
                                            !.name = <<"Face">>]
    /\ pc' = "exported"
    /\ UNCHANGED <<args, returned, matcherVars, shuffleVars, appVars>>

\* the catch clause: all three puzzles are assigned again
Catch ==
    /\ pc = "catch"
    /\ xoPuzzle' = FallbackPuzzle
    /\ arrowPuzzle' = [xoPuzzle' EXCEPT !.id = "generated-arrow",
                                        !.name = <<"Arrow">>]
    /\ facePuzzle' = [xoPuzzle' EXCEPT !.id = "generated-face",
                                       !.name = <<"Face">>]
    /\ pc' = "exported"
    /\ UNCHANGED <<args, returned, matcherVars, shuffleVars, appVars>>

NextGenerated ==
    \/ MatchXo \/ CreateXo \/ MatchArrow \/ CreateArrow
    \/ MatchFace \/ CreateFace \/ Catch

SpecGenerated == InitGenerated /\ [][NextGenerated]_vars

\* a puzzle that is defined and has no tile and empty solutions
IsEmptyPuzzle(p) ==
    /\ p # UndefinedPuzzle
    /\ p.tiles = EmptyArr /\ p.solutionA = EmptyArr /\ p.solutionB = EmptyArr

\* C17: when a matchImages call of the module threw, the catch clause is
\* entered and can run, and once the module is loaded each of xoPuzzle,
\* arrowPuzzle and facePuzzle is a defined puzzle without tiles and with
\* empty solutionA and solutionB, also those made before the failure.
C17_FallbackOnThrow ==
    /\ (pc # "load" /\ returned.threw) => pc \in {"catch", "exported"}
    /\ pc = "catch" => ENABLED Catch
    /\ (pc = "exported" /\ returned.threw) =>
          /\ IsEmptyPuzzle(xoPuzzle)
          /\ IsEmptyPuzzle(arrowPuzzle)
          /\ IsEmptyPuzzle(facePuzzle)

\* the X/O and the arrow puzzle were made, the face match threw, and the
\* module is loaded with the fallbacks
C17_Witness ==
    /\ pc = "exported" /\ returned.threw
    /\ ~matchImages(args.imageA, args.imageB, generatedGridSize).threw
    /\ ~matchImages(args.imageC, args.imageD, generatedGridSize).threw
    /\ IsEmptyPuzzle(xoPuzzle) /\ xoPuzzle.id = "generated-xo"
    /\ IsEmptyPuzzle(arrowPuzzle) /\ arrowPuzzle.id = "generated-arrow"
    /\ IsEmptyPuzzle(facePuzzle) /\ facePuzzle.id = "generated-face"

(***************************************************************************)
(* Colour normalisation: matchHistograms, extractPalette,                  *)
(* findSharedPalette, matchImagesWithNormalization, analyzeMatchQuality.   *)
(***************************************************************************)
\* the array a as a sequence, and back
ArrToSeq(a) == [k \in 1..ArrLen(a) |-> a[k - 1]]
SeqToArr(s) == [k \in 0..(Len(s) - 1) |-> s[k + 1]] @@ <<>>

\* the pixels in the order of "for (const row of image) for (const pixel of row)"
RECURSIVE PixelsFrom(_, _)
PixelsFrom(image, r) ==
    IF r >= ArrLen(image) THEN <<>>
    ELSE ArrToSeq(image[r]) \o PixelsFrom(image, r + 1)

Pixels(image) == PixelsFrom(image, 0)

\* channel k of every pixel
ChannelValues(pixels, k) == [p \in DOMAIN pixels |-> hexToRgb(pixels[p])[k]]

\* the cumulative sum of a histogram up to the value t
CountUpTo(values, t) == Cardinality({p \in DOMAIN values : values[p] <= t})

\* "diff <= bestDiff": the last target value of the least diff
HistogramMappingLastWins(v, src, tgt) ==
    LET candidates == {0} \cup {tgt[p] : p \in DOMAIN tgt}
        Diff(t) == Abs(CountUpTo(tgt, t) * Len(src)
                           - CountUpTo(src, v) * Len(tgt))
    IN  CHOOSE t \in candidates :
            \A u \in candidates :
                Diff(t) < Diff(u) \/ (Diff(t) = Diff(u) /\ t >= u)

\* mapping[v] of createHistogramMapping for the channel values src of the
\* source and tgt of the target.  The CDFs are compared over the common
\* denominator Len(src) * Len(tgt).  The target CDF only changes at a value
\* of tgt, so the first tgtVal of the least diff is 0 or one of these.
HistogramMapping(v, src, tgt) ==
    LET candidates == {0} \cup {tgt[p] : p \in DOMAIN tgt}
        Diff(t) == Abs(CountUpTo(tgt, t) * Len(src)
                           - CountUpTo(src, v) * Len(tgt))
    IN  CHOOSE t \in candidates :
            \A u \in candidates :
                Diff(t) < Diff(u) \/ (Diff(t) = Diff(u) /\ t <= u)

MappedPixel(pixel, src, tgt) ==
    rgbToHex(Whole(HistogramMapping(hexToRgb(pixel)[1],
                       ChannelValues(src, 1), ChannelValues(tgt, 1))),
             Whole(HistogramMapping(hexToRgb(pixel)[2],
                       ChannelValues(src, 2), ChannelValues(tgt, 2))),
             Whole(HistogramMapping(hexToRgb(pixel)[3],
                       ChannelValues(src, 3), ChannelValues(tgt, 3))))

MatchHistogramsOf(source, src, tgt) ==
    Arr(ArrLen(source), LAMBDA r :
        Arr(ArrLen(source[r]), LAMBDA c : MappedPixel(source[r][c], src, tgt)))

matchHistograms(source, target) ==
    MatchHistogramsOf(source, Pixels(source), Pixels(target))

\* the keys of colorCounts: the colours in the order of their first pixel
RECURSIVE UniqueColors(_)
UniqueColors(pixels) ==
    IF Len(pixels) = 0 THEN <<>>
    ELSE LET before == UniqueColors(SubSeq(pixels, 1, Len(pixels) - 1))
             pixel == pixels[Len(pixels)]
         IN  IF \E p \in DOMAIN before : before[p] = pixel THEN before
             ELSE Append(before, pixel)

Frequency(pixels, colour) ==
    Cardinality({p \in DOMAIN pixels : pixels[p] = colour})

\* the stable sort of the colours by falling frequency
RECURSIVE SortedByFreq(_, _)
SortedByFreq(colours, pixels) ==
    IF Len(colours) = 0 THEN <<>>
    ELSE LET first ==
                 CHOOSE p \in DOMAIN colours :
                     \A q \in DOMAIN colours :
                         \/ Frequency(pixels, colours[p])
                              > Frequency(pixels, colours[q])
                         \/ /\ Frequency(pixels, colours[p])
                                 = Frequency(pixels, colours[q])
                            /\ p <= q
         IN  <<colours[first]>>
                 \o SortedByFreq(SubSeq(colours, 1, first - 1)
                                     \o SubSeq(colours, first + 1, Len(colours)),
                                 pixels)

\* the number of k-means iterations of extractPalette and findSharedPalette
kMeansIterations == 10

\* Math.round(sum / length) of a sum that is not negative
RoundedMean(sum, length) == (2 * sum + length) \div (2 * length)

\* the sum of channel k of the points of a cluster (a set of indices)
RECURSIVE ClusterSum(_, _, _)
ClusterSum(points, cluster, k) ==
    IF cluster = {} THEN 0
    ELSE LET p == CHOOSE q \in cluster : TRUE
         IN  points[p][k] + ClusterSum(points, cluster \ {p}, k)

\* one iteration: every point joins its nearest centroid (the first of the
\* equally near), a centroid becomes the rounded mean of its cluster, and
\* one without points stays
KMeansStep(points, centroids) ==
    Arr(ArrLen(centroids), LAMBDA i :
        LET cluster == {p \in DOMAIN points :
                           NearestIndex(points[p], centroids) = i}
            size == Cardinality(cluster)
        IN  IF size = 0 THEN centroids[i]
            ELSE <<RoundedMean(ClusterSum(points, cluster, 1), size),
                   RoundedMean(ClusterSum(points, cluster, 2), size),
                   RoundedMean(ClusterSum(points, cluster, 3), size)>>)

RECURSIVE KMeans(_, _, _)
KMeans(points, centroids, iterations) ==
    IF iterations = 0 \/ ArrLen(points) = 0 THEN centroids
    ELSE CHOOSE r \in {KMeans(points, next, iterations - 1) :
                          next \in {KMeansStep(points, centroids)}} : TRUE

\* centroids.map(([r, g, b]) => rgbToHex(r, g, b))
CentroidColors(centroids) ==
    Arr(ArrLen(centroids), LAMBDA i :
        rgbToHex(Whole(centroids[i][1]), Whole(centroids[i][2]),
                 Whole(centroids[i][3])))

\* colours.slice(0, paletteSize).map(hexToRgb), colours a sequence
FirstCentroids(colours, paletteSize) ==
    Arr(IF Len(colours) < paletteSize THEN Len(colours) ELSE paletteSize,
        LAMBDA i : hexToRgb(colours[i + 1]))

ExtractPaletteOf(pixels, uniqueColors, paletteSize) ==
    IF Len(uniqueColors) <= paletteSize THEN SeqToArr(uniqueColors)
    ELSE CentroidColors(
             KMeans(Arr(Len(pixels), LAMBDA p : hexToRgb(pixels[p + 1])),
                    FirstCentroids(SortedByFreq(uniqueColors, pixels),
                                   paletteSize),
                    kMeansIterations))

extractPalette(image, paletteSize) ==
    ExtractPaletteOf(Pixels(image), UniqueColors(Pixels(image)), paletteSize)

SharedPaletteOf(allColors, paletteSize) ==
    CentroidColors(
        KMeans(Arr(Len(allColors), LAMBDA p : hexToRgb(allColors[p + 1])),
               FirstCentroids(allColors, paletteSize),
               kMeansIterations))

findSharedPalette(imgA, imgB, paletteSize) ==
    SharedPaletteOf(ArrToSeq(extractPalette(imgA, paletteSize))
                        \o ArrToSeq(extractPalette(imgB, paletteSize)),
                    paletteSize)

\* options.paletteSize || 8
defaultPaletteSize == 8

RemapBoth(imgA, imgB, sharedPalette, g) ==
    matchImages(remapToPalette(imgA, sharedPalette),
                remapToPalette(imgB, sharedPalette), g)

MatchNormalized(lumResult, g) ==
    matchImages(lumResult.normalizedA, lumResult.normalizedB, g)

matchImagesWithNormalization(imgA, imgB, g, options) ==
    IF options.method = "histogram"
    THEN matchImages(matchHistograms(imgA, imgB), matchHistograms(imgB, imgA), g)
    ELSE IF options.method = "palette"
    THEN RemapBoth(imgA, imgB,
                   findSharedPalette(imgA, imgB,
                       IF options.paletteSize = 0 THEN defaultPaletteSize
                       ELSE options.paletteSize), g)
    ELSE IF options.method = "luminance"
    THEN MatchNormalized(normalizeLuminance(imgA, imgB), g)
    ELSE matchImages(imgA, imgB, g)

\* const gridSize = 3 of analyzeMatchQuality
analyzeGridSize == 3

\* a.score > b.score, false when either is NaN
ScoreAbove(a, b) == ~IsNaN(a.score) /\ ~IsNaN(b.score) /\ a.score > b.score

\* the callback of scores.reduce
BetterScore(a, b) == IF ScoreAbove(a, b) THEN a ELSE b

AnalysisOf(rawResult, histResult, paletteResult) ==
    IF rawResult.threw \/ histResult.threw \/ paletteResult.threw
    THEN [threw |-> TRUE]
    ELSE [threw |-> FALSE,
          rawSimilarity |-> rawResult.totalSimilarity,
          histogramSimilarity |-> histResult.totalSimilarity,
          paletteSimilarity |-> paletteResult.totalSimilarity,
          recommendedMethod |->
              BetterScore(
                  BetterScore(
                      [method |-> "none", score |-> rawResult.totalSimilarity],
                      [method |-> "histogram",
                       score |-> histResult.totalSimilarity]),
                  [method |-> "palette",
                   score |-> paletteResult.totalSimilarity]).method]

analyzeMatchQuality(imgA, imgB) ==
    AnalysisOf(matchImages(imgA, imgB, analyzeGridSize),
               matchImagesWithNormalization(imgA, imgB, analyzeGridSize,
                   [method |-> "histogram", paletteSize |-> 0]),
               matchImagesWithNormalization(imgA, imgB, analyzeGridSize,
                   [method |-> "palette", paletteSize |-> 8]))

(***************************************************************************)
(* analyzeMatchQuality on its own: imageA every 3 x 3 image that is Black  *)
(* but for at most MaxInk pixels out of PaintColors, imageB every such     *)
(* image over Black and White.                                             *)
(***************************************************************************)
InitAnalyze ==
    /\ pc = "input"
    /\ args \in [imageA : PaintGrids({analyzeGridSize}, {analyzeGridSize}),
                 imageB : InkGrids({analyzeGridSize}, {analyzeGridSize})]
    /\ returned = EmptyArr
    /\ IdleMatcher /\ IdleShuffle /\ IdleApp /\ IdleModule

AnalyzeMatchQuality ==
    /\ pc = "input"
    /\ returned' = analyzeMatchQuality(args.imageA, args.imageB)
    /\ pc' = "returned"
    /\ UNCHANGED <<args, matcherVars, shuffleVars, appVars, moduleVars>>

NextAnalyze == AnalyzeMatchQuality

SpecAnalyze == InitAnalyze /\ [][NextAnalyze]_vars

\* C12: recommendedMethod is the strategy of the highest totalSimilarity
\* among none, histogram and palette, the first of them in this order when
\* several have the highest score, and never luminance.
C12_RecommendsFirstBest ==
    (pc = "returned" /\ ~returned.threw) =>
        LET score == [none |-> returned.rawSimilarity,
                      histogram |-> returned.histogramSimilarity,
                      palette |-> returned.paletteSimilarity]
            order == <<"none", "histogram", "palette">>
        IN  \E p \in 1..3 :
                /\ returned.recommendedMethod = order[p]
                /\ \A q \in 1..3 : score[order[q]] <= score[order[p]]
                /\ \A q \in 1..(p - 1) : score[order[q]] < score[order[p]]

(***************************************************************************)
(* The claims on the greedy scan as a whole.                               *)
(***************************************************************************)
\* the pair p comes before the pair q: higher score, then lower row, then
\* lower column
Earlier(m, p, q) ==
    \/ m[p[1]][p[2]] > m[q[1]][q[2]]
    \/ /\ m[p[1]][p[2]] = m[q[1]][q[2]]
       /\ (p[1] < q[1] \/ (p[1] = q[1] /\ p[2] < q[2]))

\* the reference scan: the earliest pair of a free row and a free column is
\* committed, until no row is free
RECURSIVE ReferenceScan(_, _, _, _)
ReferenceScan(m, rows, cols, acc) ==
    IF rows = {} THEN acc
    ELSE LET best == CHOOSE p \in rows \X cols :
                         \A q \in (rows \X cols) \ {p} : Earlier(m, p, q)
         IN  ReferenceScan(m, rows \ {best[1]}, cols \ {best[2]},
                           [acc EXCEPT ![best[1]] = best[2]])

\* C21: the assignment returned is that of the reference scan over the
\* pairs ordered by falling score, then row, then column; a matrix of equal
\* entries gives the identity, and some committed pair carries a maximum
\* entry of the matrix.
C21_GreedyScan ==
    pc = "assigned" =>
        LET m == similarityMatrix
            n == ArrLen(m)
        IN  /\ assignment = ReferenceScan(m, 0..(n - 1), 0..(n - 1),
                                          [i \in 0..(n - 1) |-> -1])
            /\ (\A i, j, k, l \in 0..(n - 1) : m[i][j] = m[k][l]) =>
                   \A i \in 0..(n - 1) : assignment[i] = i
            /\ \E i \in 0..(n - 1) :
                   \A k, l \in 0..(n - 1) : m[k][l] <= m[i][assignment[i]]

\* three equal top scores: (0,1) is committed first, then (1,0)
C21_Witness ==
    /\ pc = "assigned"
    /\ ArrLen(similarityMatrix) = 2
    /\ similarityMatrix[0][0] < similarityMatrix[0][1]
    /\ similarityMatrix[0][1] = similarityMatrix[1][0]
    /\ similarityMatrix[1][0] = similarityMatrix[1][1]
    /\ assignment[0] = 1 /\ assignment[1] = 0

(***************************************************************************)
(* The threshold of matchImages: the assembler on images of one row whose  *)
(* colours lie near Black, so that similarities fall just above, on and    *)
(* below 0.95.                                                             *)
(***************************************************************************)
\* #0a0a0a: 0.9607... from Black as a tile of one pixel
NearBlack == <<0, 10, 0, 10, 0, 10>>

\* #000814 and #001010: as a tile of two pixels 0.95 from two Black pixels
Navy == <<0, 0, 0, 8, 1, 4>>
Teal == <<0, 0, 1, 0, 1, 0>>

NearColors == {Black, NearBlack, Navy, Teal}

NearGrids ==
    UNION {[0..0 -> [0..(w - 1) -> NearColors]] : w \in 1..MaxMatchDim}

InitThreshold ==
    /\ pc = "input"
    /\ imageA \in NearGrids
    /\ imageB \in NearGrids
    /\ gridSize = 1
    /\ matchResult = EmptyArr /\ puzzle = EmptyArr
    /\ IdleAssign /\ IdleExtract /\ IdleTile /\ IdleOther

SpecThreshold == InitThreshold /\ [][NextMatch]_vars

\* C25: in a returned result the content of tile i is the tile of A itself
\* when the similarity of the matched pair is greater than 0.95, and the
\* blend of the two tiles at weight 0.5 when it is 0.95 or less.
C25_BlendThreshold ==
    (pc = "matched" /\ ~matchResult.threw) =>
        LET tilesA == extractTiles(imageA, gridSize)
            tilesB == extractTiles(imageB, gridSize)
        IN  \A i \in DOMAIN matchResult.matchDetails :
                LET d == matchResult.matchDetails[i]
                    expected == IF 100 * d.similarity > 95 * One
                                THEN tilesA[i]
                                ELSE blendTiles(tilesA[i],
                                                tilesB[d.tileIndexB], 50)
                IN  /\ d.similarity = tileSimilarity(tilesA[i],
                                                     tilesB[d.tileIndexB])
                    /\ d.blendedContent = expected
                    /\ matchResult.tiles[i] = expected

\* a similarity of 0.95 exactly: the content is the blend, not the tile of A
C25_Witness ==
    /\ pc = "matched"
    /\ ~matchResult.threw
    /\ 100 * matchResult.matchDetails[0].similarity = 95 * One
    /\ matchResult.tiles[0] # extractTiles(imageA, gridSize)[0]
    /\ matchResult.tiles[0] =
           blendTiles(extractTiles(imageA, gridSize)[0],
                      extractTiles(imageB, gridSize)[0], 50)

\* a similarity between 0.95 and 1: the content is the tile of A although
\* the blend differs from it
C25_AboveWitness ==
    /\ pc = "matched"
    /\ ~matchResult.threw
    /\ 100 * matchResult.matchDetails[0].similarity > 95 * One
    /\ matchResult.matchDetails[0].similarity < One
    /\ matchResult.tiles[0] = extractTiles(imageA, gridSize)[0]
    /\ matchResult.tiles[0] #
           blendTiles(extractTiles(imageA, gridSize)[0],
                      extractTiles(imageB, gridSize)[0], 50)

(***************************************************************************)
(* matchHistograms on every source and target of one or two rows and       *)
(* columns that are Gray but for at most MaxInk (source) and MaxInk + 1    *)
(* (target) pixels of HistColors.  The pixel counts are 1, 2 and 4, so     *)
(* that every value of a CDF and every difference of two is a double       *)
(* without rounding.                                                       *)
(***************************************************************************)
HistColors == {Black, Gray, Red}

RECURSIVE Tinted(_, _, _)
Tinted(h, w, ink) ==
    IF ink = 0 THEN {[r \in 0..(h - 1) |-> [c \in 0..(w - 1) |-> Gray]]}
    ELSE LET less == Tinted(h, w, ink - 1)
         IN  less \cup {[g EXCEPT ![r][c] = colour] :
                           g \in less, r \in 0..(h - 1), c \in 0..(w - 1),
                           colour \in HistColors}

HistGrids(ink) == UNION {Tinted(h, w, ink) : h \in {1, 2}, w \in {1, 2}}

InitHistogram ==
    /\ pc = "input"
    /\ args \in [fn : {"matchHistograms"}, source : HistGrids(MaxInk),
                 target : HistGrids(MaxInk + 1)]
    /\ returned = EmptyArr
    /\ IdleMatcher /\ IdleShuffle /\ IdleApp /\ IdleModule

MatchHistograms ==
    /\ pc = "input"
    /\ args.fn = "matchHistograms"
    /\ returned' = matchHistograms(args.source, args.target)
    /\ pc' = "returned"
    /\ UNCHANGED <<args, matcherVars, shuffleVars, appVars, moduleVars>>

SpecHistogram == InitHistogram /\ [][MatchHistograms]_vars

\* t is the smallest of the 256 target intensities of the least diff for v
IsFirstMinimum(t, v, src, tgt) ==
    LET sourceCount == CountUpTo(src, v) * Len(tgt)
        least == Abs(CountUpTo(tgt, t) * Len(src) - sourceCount)
    IN  \A u \in 0..255 :
            LET diff == Abs(CountUpTo(tgt, u) * Len(src) - sourceCount)
            IN  least < diff \/ (least = diff /\ t <= u)

\* the intensities at which a CDF of the call changes, with 0 and 255
Breakpoints(src, tgt) ==
    {0, 255} \cup {src[p] : p \in DOMAIN src} \cup {tgt[p] : p \in DOMAIN tgt}

\* C26: every channel of every pixel returned is the smallest target
\* intensity of the least CDF difference for the channel of the source
\* pixel, each channel by its own mapping; the dimensions are those of the
\* source; each mapping is non-decreasing; an image matched to itself comes
\* back unchanged.
C26_MatchHistograms ==
    (pc = "returned" /\ args.fn = "matchHistograms") =>
        LET source == args.source
            src == Pixels(source)
            tgt == Pixels(args.target)
        IN  /\ ArrLen(returned) = ArrLen(source)
            /\ \A r \in DOMAIN source :
                   /\ ArrLen(returned[r]) = ArrLen(source[r])
                   /\ \A c \in DOMAIN source[r] : \A k \in 1..3 :
                          IsFirstMinimum(hexToRgb(returned[r][c])[k],
                                         hexToRgb(source[r][c])[k],
                                         ChannelValues(src, k),
                                         ChannelValues(tgt, k))
            /\ \A k \in 1..3 :
                   \A v, w \in Breakpoints(ChannelValues(src, k),
                                           ChannelValues(tgt, k)) :
                       v <= w =>
                           HistogramMapping(v, ChannelValues(src, k),
                                               ChannelValues(tgt, k))
                           <= HistogramMapping(w, ChannelValues(src, k),
                                                  ChannelValues(tgt, k))
            /\ args.target = source => returned = source

\* the red channel of the source pixel Black has the CDF value 1/2, as far
\* from the target's 1/4 at 0 as from its 3/4 at 128: it stays 0
C26_Witness ==
    /\ pc = "returned"
    /\ args.fn = "matchHistograms"
    /\ ArrLen(args.source) = 1 /\ ArrLen(args.source[0]) = 2
    /\ args.source[0][0] = Black /\ args.source[0][1] = Gray
    /\ ArrLen(args.target) = 2 /\ ArrLen(args.target[0]) = 2
    /\ args.target[0][0] = Black /\ args.target[0][1] = Gray
    /\ args.target[1][0] = Gray /\ args.target[1][1] = Red
    /\ hexToRgb(returned[0][0])[1] = 0

\* '#' and six hex digits
WellFormed(pixel) ==
    Len(pixel) = 6 /\ \A k \in 1..6 : pixel[k] \in 0..15

\* C30: for two images that have a pixel each, of any average luminance,
\* every pixel normalizeLuminance returns is '#' and six hex digits, and its
\* three channels are read back as numbers of 0..255.
C30_NormalizedPixelsWellFormed ==
    (/\ pc = "returned"
     /\ args.fn = "normalizeLuminance"
     /\ PixelCount(args.imageA) > 0
     /\ PixelCount(args.imageB) > 0) =>
        \A image \in {returned.normalizedA, returned.normalizedB} :
            \A r \in DOMAIN image : \A c \in DOMAIN image[r] :
                /\ WellFormed(image[r][c])
                /\ \A k \in 1..3 : hexToRgb(image[r][c])[k] \in 0..255

(***************************************************************************)
(* The game: usePuzzleState and the win modal of PuzzleGame, on every      *)
(* puzzle of 0..MaxTiles tiles whose solutionA is the order of the tiles   *)
(* and whose solutionB is that order, its reverse or its rotation, with    *)
(* and without requiresFlip.  A step is one event with the render and the  *)
(* effect that follow it.                                                  *)
(* Positions and tile ids are those the board hands over: positions of the *)
(* arrangement, ids of the puzzle's tiles, flips when the puzzle requires  *)
(* them.                                                                   *)
(***************************************************************************)
MaxMoves == 2

\* the orderings of n tile ids taken for solutionB: the order of the tiles,
\* its reverse and its rotation by one
SecondSolutions(n) ==
    {Arr(n, LAMBDA k : TileId(k)),
     Arr(n, LAMBDA k : TileId(n - 1 - k)),
     Arr(n, LAMBDA k : TileId((k + 1) % n))}

GamePuzzles ==
    UNION {[id : {"game"},
            tiles : {Arr(n, LAMBDA k : TileId(k))},
            solutionA : {Arr(n, LAMBDA k : TileId(k))},
            solutionB : SecondSolutions(n),
            requiresFlip : BOOLEAN] : n \in 0..MaxTiles}

\* the flips left out of the status of a puzzle that requires them
solutionStatusIgnoringFlips(p, arrangement, flipped) ==
    checkSolution(arrangement, p.solutionA, p.solutionB)

\* the memo solutionStatus
solutionStatus(p, arrangement, flipped) ==
    LET arrangementCheck ==
            checkSolution(arrangement, p.solutionA, p.solutionB)
        allFlipped == \A k \in DOMAIN p.tiles : p.tiles[k] \in flipped
        noneFlipped == Cardinality(flipped) = 0
    IN  IF p.requiresFlip
        THEN [solvedA |-> arrangementCheck.solvedA /\ noneFlipped,
              solvedB |-> arrangementCheck.solvedB /\ allFlipped,
              solved |-> \/ arrangementCheck.solvedA /\ noneFlipped
                         \/ arrangementCheck.solvedB /\ allFlipped]
        ELSE arrangementCheck

Status == solutionStatus(puzzle, currentArrangement, flippedTiles)

\* the dependencies of the win-modal effect that can change
Deps == <<Status.solved, Status.solvedA, showWinModal>>

\* the effect after the render: when a dependency changed, the cleanup
\* clears the timeout and the effect sets a new one if solved && !showWinModal
WinEffect ==
    winTimer' = IF Deps' = Deps THEN winTimer
                ELSE IF Status'.solved /\ ~showWinModal' THEN "pending"
                ELSE "none"

\* the arrangement or the flips differ after the step
Changed ==
    currentArrangement' # currentArrangement \/ flippedTiles' # flippedTiles

\* the histories after the step op, which restarts the count of moves or not
Observed(op, restarts) ==
    /\ lastOp' = [op |-> op, changed |-> Changed]
    /\ moves' = IF restarts THEN 0 ELSE IF Changed THEN moves + 1 ELSE moves
    /\ dismissed' = (dismissed /\ ~Changed /\ Status'.solved)

\* what no step of the game writes
GameFrame ==
    UNCHANGED <<pc, puzzleIndex, initialMemo, puzzle, imageA, imageB,
                matchResult, gridSize, assignVars, extractVars, tileVars,
                callVars, shuffleVars, moduleVars>>

InitGame ==
    /\ pc = "playing"
    /\ puzzle \in GamePuzzles
    /\ initialMemo \in initialArrangement(puzzle)
    /\ currentArrangement = initialMemo
    /\ selectedTileIndex = Null /\ moveCount = 0 /\ flippedTiles = {}
    /\ showWinModal = FALSE
    /\ winTimer = IF Status.solved THEN "pending" ELSE "none"
    /\ lastOp = [op |-> "load", changed |-> FALSE]
    /\ moves = 0 /\ dismissed = FALSE
    /\ puzzleIndex = 0
    /\ imageA = EmptyArr /\ imageB = EmptyArr /\ matchResult = EmptyArr
    /\ gridSize = 0 /\ IdleAssign /\ IdleExtract /\ IdleTile
    /\ IdleCall /\ IdleShuffle /\ IdleModule

selectTile(index) ==
    /\ pc = "playing"
    /\ selectedTileIndex' = index
    /\ UNCHANGED <<currentArrangement, moveCount, flippedTiles, showWinModal>>
    /\ GameFrame /\ WinEffect /\ Observed("selectTile", FALSE)

\* the selection is kept after the swap
swapWithSelectedKeeping(index) ==
    /\ pc = "playing"
    /\ IF selectedTileIndex = Null \/ selectedTileIndex = index
       THEN /\ selectedTileIndex' = Null
            /\ UNCHANGED <<currentArrangement, moveCount>>
       ELSE /\ moveCount < MaxMoves
            /\ currentArrangement' =
                   swapTiles(currentArrangement, selectedTileIndex, index)
            /\ moveCount' = moveCount + 1
            /\ selectedTileIndex' = selectedTileIndex
    /\ UNCHANGED <<flippedTiles, showWinModal>>
    /\ GameFrame /\ WinEffect /\ Observed("swapWithSelected", FALSE)

swapWithSelected(index) ==
    /\ pc = "playing"
    /\ IF selectedTileIndex = Null \/ selectedTileIndex = index
       THEN /\ selectedTileIndex' = Null
            /\ UNCHANGED <<currentArrangement, moveCount>>
       ELSE /\ moveCount < MaxMoves
            /\ currentArrangement' =
                   swapTiles(currentArrangement, selectedTileIndex, index)
            /\ moveCount' = moveCount + 1
            /\ selectedTileIndex' = Null
    /\ UNCHANGED <<flippedTiles, showWinModal>>
    /\ GameFrame /\ WinEffect /\ Observed("swapWithSelected", FALSE)

handleTileClick(index) ==
    IF selectedTileIndex = Null THEN selectTile(index)
    ELSE swapWithSelected(index)

\* without the return for fromIndex === toIndex
dragSwapCounting(fromIndex, toIndex) ==
    /\ pc = "playing"
    /\ moveCount < MaxMoves
    /\ currentArrangement' = swapTiles(currentArrangement, fromIndex, toIndex)
    /\ moveCount' = moveCount + 1
    /\ selectedTileIndex' = Null
    /\ UNCHANGED <<flippedTiles, showWinModal>>
    /\ GameFrame /\ WinEffect /\ Observed("dragSwap", FALSE)

dragSwap(fromIndex, toIndex) ==
    /\ pc = "playing"
    /\ IF fromIndex = toIndex
       THEN UNCHANGED <<currentArrangement, moveCount, selectedTileIndex>>
       ELSE /\ moveCount < MaxMoves
            /\ currentArrangement' =
                   swapTiles(currentArrangement, fromIndex, toIndex)
            /\ moveCount' = moveCount + 1
            /\ selectedTileIndex' = Null
    /\ UNCHANGED <<flippedTiles, showWinModal>>
    /\ GameFrame /\ WinEffect /\ Observed("dragSwap", FALSE)

flipTile(tileId) ==
    /\ pc = "playing"
    /\ moveCount < MaxMoves
    /\ flippedTiles' = IF tileId \in flippedTiles
                       THEN flippedTiles \ {tileId}
                       ELSE flippedTiles \cup {tileId}
    /\ moveCount' = moveCount + 1
    /\ UNCHANGED <<currentArrangement, selectedTileIndex, showWinModal>>
    /\ GameFrame /\ WinEffect /\ Observed("flipTile", FALSE)

shuffleTiles ==
    /\ pc = "playing"
    /\ currentArrangement' \in
           shuffleUntilUnsolved(puzzle.tiles, puzzle.solutionA,
                                puzzle.solutionB, maxAttempts)
    /\ moveCount' = 0
    /\ selectedTileIndex' = Null
    /\ flippedTiles' = {}
    /\ UNCHANGED showWinModal
    /\ GameFrame /\ WinEffect /\ Observed("shuffleTiles", TRUE)

\* a new shuffle in place of the memoized arrangement
resetToShuffle ==
    /\ pc = "playing"
    /\ currentArrangement' \in
           shuffleUntilUnsolved(puzzle.tiles, puzzle.solutionA,
                                puzzle.solutionB, maxAttempts)
    /\ moveCount' = 0
    /\ selectedTileIndex' = Null
    /\ flippedTiles' = {}
    /\ UNCHANGED showWinModal
    /\ GameFrame /\ WinEffect /\ Observed("reset", TRUE)

reset ==
    /\ pc = "playing"
    /\ currentArrangement' = initialMemo
    /\ moveCount' = 0
    /\ selectedTileIndex' = Null
    /\ flippedTiles' = {}
    /\ UNCHANGED showWinModal
    /\ GameFrame /\ WinEffect /\ Observed("reset", TRUE)

\* "Play Again" of the open modal: setShowWinModal(false); shuffleTiles()
handlePlayAgain ==
    /\ pc = "playing"
    /\ showWinModal
    /\ showWinModal' = FALSE
    /\ currentArrangement' \in
           shuffleUntilUnsolved(puzzle.tiles, puzzle.solutionA,
                                puzzle.solutionB, maxAttempts)
    /\ moveCount' = 0
    /\ selectedTileIndex' = Null
    /\ flippedTiles' = {}
    /\ GameFrame /\ WinEffect /\ Observed("handlePlayAgain", TRUE)

\* "Close" or the backdrop of the open modal: setShowWinModal(false)
onClose ==
    /\ pc = "playing"
    /\ showWinModal
    /\ showWinModal' = FALSE
    /\ UNCHANGED <<currentArrangement, selectedTileIndex, moveCount,
                   flippedTiles, moves>>
    /\ lastOp' = [op |-> "onClose", changed |-> FALSE]
    /\ dismissed' = Status.solved
    /\ GameFrame /\ WinEffect

\* the timeout of 300 ms runs out: setShowWinModal(true)
WinTimerFires ==
    /\ pc = "playing"
    /\ winTimer = "pending"
    /\ showWinModal' = TRUE
    /\ UNCHANGED <<currentArrangement, selectedTileIndex, moveCount,
                   flippedTiles, moves, dismissed>>
    /\ lastOp' = [op |-> "timeout", changed |-> FALSE]
    /\ GameFrame /\ WinEffect

NextGame ==
    \/ \E index \in DOMAIN currentArrangement : selectTile(index)
    \/ \E index \in DOMAIN currentArrangement : swapWithSelected(index)
    \/ \E index \in DOMAIN currentArrangement : handleTileClick(index)
    \/ \E fromIndex, toIndex \in DOMAIN currentArrangement :
           dragSwap(fromIndex, toIndex)
    \/ /\ puzzle.requiresFlip    \* onFlipTile is undefined otherwise
       /\ \E k \in DOMAIN puzzle.tiles : flipTile(puzzle.tiles[k])
    \/ shuffleTiles
    \/ reset
    \/ handlePlayAgain
    \/ onClose
    \/ WinTimerFires

SpecGame == InitGame /\ [][NextGame]_vars

\* C22: after any sequence of operations of the game (with the positions
\* of the board) currentArrangement holds every tile id of the puzzle
\* exactly once, and no step changes the puzzle: its tiles, solutionA and
\* solutionB stay what they were.
C22_ArrangementIsPermutation ==
    /\ [](pc = "playing" =>
              IsArrangementOf(currentArrangement, puzzle.tiles))
    /\ [][puzzle' = puzzle]_vars

\* a drag has swapped two tiles after another move
C22_Witness ==
    /\ pc = "playing"
    /\ lastOp = [op |-> "dragSwap", changed |-> TRUE]
    /\ moveCount = MaxMoves
    /\ ArrLen(currentArrangement) = MaxTiles

\* C23: a click on position p with nothing selected only selects p; with s
\* selected, a click on another position swaps the tiles at s and p, adds
\* one to moveCount and clears the selection; a click on s itself only
\* clears the selection.
C23_ClickToSwap ==
    [][\A p \in DOMAIN currentArrangement :
           handleTileClick(p) =>
               LET s == selectedTileIndex
               IN  IF s = Null
                   THEN /\ selectedTileIndex' = p
                        /\ UNCHANGED <<currentArrangement, moveCount,
                                       flippedTiles>>
                   ELSE IF p # s
                   THEN /\ currentArrangement' =
                               [currentArrangement EXCEPT
                                    ![s] = currentArrangement[p],
                                    ![p] = currentArrangement[s]]
                        /\ moveCount' = moveCount + 1
                        /\ selectedTileIndex' = Null
                        /\ UNCHANGED flippedTiles
                   ELSE /\ selectedTileIndex' = Null
                        /\ UNCHANGED <<currentArrangement, moveCount,
                                       flippedTiles>>]_vars

\* the second click has swapped two tiles and cleared the selection
C23_Witness ==
    /\ pc = "playing"
    /\ lastOp = [op |-> "swapWithSelected", changed |-> TRUE]
    /\ selectedTileIndex = Null
    /\ moveCount >= 1

\* C24: with requiresFlip, solvedA means the arrangement is solutionA and no
\* tile is flipped, solvedB means the arrangement is solutionB and every
\* tile is flipped; without requiresFlip the flips have no influence; solved
\* is solvedA or solvedB.
C24_SolvedStatus ==
    pc = "playing" =>
        LET ids == {puzzle.tiles[k] : k \in DOMAIN puzzle.tiles}
            isA == currentArrangement = puzzle.solutionA
            isB == currentArrangement = puzzle.solutionB
        IN  /\ puzzle.requiresFlip =>
                   /\ Status.solvedA = (isA /\ ids \cap flippedTiles = {})
                   /\ Status.solvedB = (isB /\ ids \subseteq flippedTiles)
            /\ ~puzzle.requiresFlip =>
                   \A flipped \in SUBSET ids :
                       /\ solutionStatus(puzzle, currentArrangement, flipped)
                              = Status
                       /\ Status.solvedA = isA
                       /\ Status.solvedB = isB
            /\ Status.solved = (Status.solvedA \/ Status.solvedB)

\* the last tile was flipped over and the puzzle is solved for B, not for A
C24_Witness ==
    /\ pc = "playing"
    /\ puzzle.requiresFlip
    /\ ArrLen(puzzle.tiles) = MaxTiles
    /\ lastOp.op = "flipTile"
    /\ Status.solvedB /\ ~Status.solvedA /\ Status.solved

\* C27: after reset the arrangement is the one computed when the puzzle was
\* loaded, moveCount is 0, nothing is selected and nothing is flipped;
\* after shuffleTiles moveCount is 0, nothing is selected and nothing is
\* flipped.
C27_Reset ==
    /\ (pc = "playing" /\ lastOp.op = "reset") =>
           /\ currentArrangement = initialMemo
           /\ moveCount = 0
           /\ selectedTileIndex = Null
           /\ flippedTiles = {}
    /\ (pc = "playing" /\ lastOp.op = "shuffleTiles") =>
           /\ moveCount = 0
           /\ selectedTileIndex = Null
           /\ flippedTiles = {}

\* reset has changed the arrangement or the flips of a puzzle of MaxTiles
\* tiles
C27_Witness ==
    /\ pc = "playing"
    /\ lastOp = [op |-> "reset", changed |-> TRUE]
    /\ ArrLen(currentArrangement) = MaxTiles
    /\ currentArrangement = initialMemo

\* a step that selects, deselects or drags a position onto itself
Quiet ==
    \/ \E index \in DOMAIN currentArrangement : selectTile(index)
    \/ \E index \in DOMAIN currentArrangement :
           selectedTileIndex \in {Null, index} /\ swapWithSelected(index)
    \/ \E index \in DOMAIN currentArrangement : dragSwap(index, index)

\* C28: moveCount is the number of steps since load, shuffle or reset that
\* changed the arrangement or the flips (a swap of two positions by click
\* or drag, a flip); selecting, deselecting and dragging a position onto
\* itself change neither moveCount nor the arrangement.
C28_MoveCount ==
    /\ [](pc = "playing" => moveCount = moves)
    /\ [][Quiet => UNCHANGED <<moveCount, currentArrangement>>]_vars

\* a tile was dragged onto itself after MaxMoves moves, a selection standing
C28_Witness ==
    /\ pc = "playing"
    /\ lastOp = [op |-> "dragSwap", changed |-> FALSE]
    /\ moveCount = MaxMoves
    /\ selectedTileIndex # Null

\* the modal opens in the solved state only
OpensOnlyWhenSolved ==
    [][(~showWinModal /\ showWinModal') => Status.solved]_vars

\* C29: once the modal was closed in the solved state it is not shown
\* again for as long as the arrangement and the flips stay what they are.
C29_StaysClosed == (pc = "playing" /\ dismissed) => ~showWinModal

=============================================================================
